---- MODULE Spec2Model ----
(***************************************************************************)
(* A model of the test-case execution engine of xnmeet/snow:               *)
(*   - the action contract (packages/core/src/shared/schemas.ts),          *)
(*   - the automation dispatcher AutomationAgent                           *)
(*     (packages/core/src/shared/factory/AIClient.ts, lines 533-962),      *)
(*   - the case orchestrator TestCaseExecutor                              *)
(*     (packages/core/src/shared/factory/TestCaseExecutor.ts).             *)
(*                                                                         *)
(* JavaScript runs every stretch of code between two awaits atomically,    *)
(* so each action below is one such stretch: it starts where a call is     *)
(* made or an awaited promise settles and ends at the next await.          *)
(***************************************************************************)
EXTENDS Integers, Sequences, FiniteSets, TLC

(***************************************************************************)
(* Bounds of the model.                                                    *)
(***************************************************************************)
MaxSteps == 3      \* longest action sequence handed to an orchestrator
MaxClock == 2      \* Date.now() ranges over 1..MaxClock
MaxRuns == 1       \* execute() calls made on one orchestrator
MaxReruns == 1     \* further execute() calls made on a case that was not reset

(***************************************************************************)
(* JavaScript values.  A value is a record [k, v]: k is its run-time type  *)
(* and v its literal.  "point" and "scrollParam" stand for objects that    *)
(* satisfy PointSchema / ScrollParamSchema, "record" for a string-valued   *)
(* record, "object" for any other object.                                  *)
(***************************************************************************)
S(s) == [k |-> "string", v |-> s]
N(n) == [k |-> "number", v |-> n]
B(b) == [k |-> "boolean", v |-> b]
O(kind, lit) == [k |-> kind, v |-> lit]

\* JavaScript truthiness of a present value (if (step.locate) ...)
Truthy(val) ==
  /\ ~(val.k = "string" /\ val.v = "")
  /\ ~(val.k = "number" /\ val.v = "0")
  /\ ~(val.k = "boolean" /\ val.v = "false")
  /\ val.k \notin {"undefined", "null"}

\* step.f is truthy: the field exists and holds a truthy value
Has(step, f) == f \in DOMAIN step /\ Truthy(step[f])

Put(r, f, val) == [n \in (DOMAIN r) \cup {f} |-> IF n = f THEN val ELSE r[n]]

Restrict(r, fs) == [n \in (DOMAIN r) \cap fs |-> r[n]]

(***************************************************************************)
(* The action contract: schemas.ts                                         *)
(***************************************************************************)
AIActionTypes ==
  {"ai", "aiAction", "aiTap", "aiInput", "aiHover", "aiKeyboardPress",
   "aiScroll", "aiRightClick", "aiDoubleClick", "aiLocate", "aiWaitFor",
   "aiAssert", "aiQuery", "aiExtract", "aiAsk", "aiBoolean", "aiNumber",
   "aiString", "runYaml", "evaluateJavaScript", "logScreenshot",
   "describeElementAtPoint", "verifyLocator", "freezePageContext",
   "unfreezePageContext", "setAIActionContext"}

\* does a value satisfy the zod schema named by `kind`
Accepts(kind, val) ==
  CASE kind = "string"      -> val.k = "string"
    [] kind = "number"      -> val.k = "number"
    [] kind = "boolean"     -> val.k = "boolean"
    [] kind = "key"         -> val.k = "string"
    [] kind = "domInclude"  -> val.k = "boolean" \/ val = S("visible-only")
    [] kind = "dataDemand"  -> val.k \in {"string", "record"}
    [] kind = "point"       -> val.k = "point"
    [] kind = "scrollParam" -> val.k = "scrollParam"
    [] OTHER                -> FALSE

LocateOptionShape == [deepThink |-> "boolean", cacheable |-> "boolean"]
InsightExtractOptionShape == [domIncluded |-> "domInclude", screenshotIncluded |-> "boolean"]
LocatorValidatorOptionShape ==
  [verifyPrompt |-> "boolean", retryLimit |-> "number", deepThink |-> "boolean"]

\* the required fields of a tag's member of the AIActionSchema union
RequiredShape(tag) ==
  CASE tag \in {"ai", "aiAction", "aiAsk", "aiBoolean", "aiNumber", "aiString"} ->
         [prompt |-> "string"]
    [] tag \in {"aiTap", "aiHover", "aiRightClick", "aiDoubleClick", "aiLocate"} ->
         [locate |-> "string"]
    [] tag = "aiInput" -> [locate |-> "string", text |-> "string"]
    [] tag = "aiKeyboardPress" -> [key |-> "key"]
    [] tag = "aiScroll" -> [scrollParam |-> "scrollParam"]
    [] tag \in {"aiQuery", "aiExtract"} -> [dataDemand |-> "dataDemand"]
    [] tag \in {"aiAssert", "aiWaitFor"} -> [assertion |-> "string"]
    [] tag = "describeElementAtPoint" -> [x |-> "number", y |-> "number"]
    [] tag = "runYaml" -> [yamlScriptContent |-> "string"]
    [] tag = "setAIActionContext" -> [actionContext |-> "string"]
    [] tag = "evaluateJavaScript" -> [script |-> "string"]
    [] tag = "verifyLocator" -> [prompt |-> "string", expectCenter |-> "point"]
    [] OTHER -> << >>

\* the optional fields of a tag's member of the AIActionSchema union
OptionalShape(tag) ==
  CASE tag \in {"ai", "aiAction"} -> [cacheable |-> "boolean"]
    [] tag \in {"aiTap", "aiHover", "aiRightClick", "aiDoubleClick", "aiLocate"} ->
         LocateOptionShape
    [] tag = "aiInput" -> LocateOptionShape @@ [autoDismissKeyboard |-> "boolean"]
    [] tag \in {"aiKeyboardPress", "aiScroll"} -> LocateOptionShape @@ [locate |-> "string"]
    [] tag \in {"aiQuery", "aiExtract"} -> InsightExtractOptionShape
    [] tag \in {"aiAsk", "aiBoolean", "aiNumber", "aiString"} ->
         InsightExtractOptionShape @@ [cacheable |-> "boolean"]
    [] tag = "aiAssert" -> [errorMsg |-> "string", timeoutMs |-> "number"]
    [] tag = "aiWaitFor" -> [timeoutMs |-> "number", checkIntervalMs |-> "number"]
    [] tag \in {"describeElementAtPoint", "verifyLocator"} -> LocatorValidatorOptionShape
    [] tag = "logScreenshot" -> [title |-> "string", content |-> "string"]
    [] OTHER -> << >>

\* schemas.AIAction.parse(a) does not throw
AIActionValid(a) ==
  /\ "type" \in DOMAIN a
  /\ a.type.k = "string"
  /\ a.type.v \in AIActionTypes
  /\ LET req == RequiredShape(a.type.v)
         opt == OptionalShape(a.type.v)
     IN /\ \A f \in DOMAIN req : f \in DOMAIN a /\ Accepts(req[f], a[f])
        /\ \A f \in (DOMAIN opt) \cap (DOMAIN a) : Accepts(opt[f], a[f])

\* the value schemas.AIAction.parse(a) returns: a z.object keeps the keys of
\* its shape and drops every other key
AIActionParsed(a) ==
  Restrict(a, {"type"} \cup DOMAIN RequiredShape(a.type.v) \cup DOMAIN OptionalShape(a.type.v))

(***************************************************************************)
(* Action sequences.  A raw sequence is [defined, shaped, actions, code]:  *)
(* defined = FALSE is undefined; shaped = FALSE is an object without an    *)
(* array `actions` or without `display.code`; code is display.code.        *)
(***************************************************************************)
NoSequence == [defined |-> FALSE, shaped |-> FALSE, actions |-> << >>, code |-> << >>]

\* schemas.ActionSequence.parse(raw) does not throw
ActionSequenceValid(raw) ==
  /\ raw.defined
  /\ raw.shaped
  /\ \A n \in 1..Len(raw.actions) : AIActionValid(raw.actions[n])

\* the value schemas.ActionSequence.parse(raw) returns
ActionSequenceParsed(raw) ==
  [raw EXCEPT !.actions = [n \in 1..Len(raw.actions) |-> AIActionParsed(raw.actions[n])]]

(***************************************************************************)
(* parseTestActionSequence / parseTestCode / parseTestCodeOrActionSequence *)
(* Their result is [ok, steps, error]: ok = FALSE is a thrown exception    *)
(* whose message is error.  Step ids (nanoid()) are firstId, firstId+1 ... *)
(***************************************************************************)
\* generateDescription(action): the leading words of the description
generateDescription(a) ==
  IF "type" \in DOMAIN a /\ a.type.k = "string" /\ a.type.v \in AIActionTypes
      /\ a.type.v \notin {"verifyLocator", "freezePageContext", "unfreezePageContext"}
    THEN a.type.v
    ELSE "Unknown action"

\* a slip in MakeStep: one id for all the steps of a parse
MakeStepSameId(a, codes, n, firstId) ==
  LET base == Put(Put(Put(a, "id", firstId),
                      "description", generateDescription(a)),
                  "status", "pending")
  IN IF n <= Len(codes) THEN Put(base, "rawCode", codes[n])
                        ELSE Restrict(base, (DOMAIN base) \ {"rawCode"})

\* one element of actions.map((action, index) => ({...action, id, description, status, rawCode}))
MakeStep(a, codes, n, firstId) ==
  LET base == Put(Put(Put(a, "id", firstId + n - 1),
                      "description", generateDescription(a)),
                  "status", "pending")
  IN IF n <= Len(codes) THEN Put(base, "rawCode", codes[n])
                        ELSE Restrict(base, (DOMAIN base) \ {"rawCode"})

StepsOf(sequence, firstId) ==
  [n \in 1..Len(sequence.actions) |-> MakeStep(sequence.actions[n], sequence.code, n, firstId)]

parseTestActionSequence(actionSequence, firstId) ==
  IF actionSequence.shaped
    THEN [ok |-> TRUE, steps |-> StepsOf(actionSequence, firstId), error |-> ""]
    ELSE [ok |-> FALSE, steps |-> << >>,
          error |-> "Cannot read properties of undefined"]

\* a code string is [kind, json]: kind "undefined", "empty" (the string ''),
\* "garbage" (JSON5.parse throws) or "json" (JSON5.parse returns json)
NoCode == [kind |-> "undefined", json |-> NoSequence]

parseTestCode(code, firstId) ==
  IF code.kind # "json"
    THEN [ok |-> FALSE, steps |-> << >>,
          error |-> "Failed to parse test code: JSON5: invalid character"]
    ELSE IF ~ActionSequenceValid(code.json)
      THEN [ok |-> FALSE, steps |-> << >>,
            error |-> "Failed to parse test code: ZodError"]
      ELSE [ok |-> TRUE, steps |-> StepsOf(ActionSequenceParsed(code.json), firstId),
            error |-> ""]

\* a slip in parseTestCodeOrActionSequence: `if (code !== undefined)` for `if (code)`
parseTestCodeOrActionSequenceEmptyCode(actionSequence, code, firstId) ==
  IF actionSequence.defined
    THEN parseTestActionSequence(actionSequence, firstId)
    ELSE IF code.kind # "undefined"
      THEN parseTestCode(code, firstId)
      ELSE [ok |-> TRUE, steps |-> << >>, error |-> ""]

parseTestCodeOrActionSequence(actionSequence, code, firstId) ==
  IF actionSequence.defined
    THEN parseTestActionSequence(actionSequence, firstId)
    ELSE IF code.kind \in {"garbage", "json"}
      THEN parseTestCode(code, firstId)
      ELSE [ok |-> TRUE, steps |-> << >>, error |-> ""]

(***************************************************************************)
(* The state.                                                              *)
(***************************************************************************)
VARIABLES
  testCase,       \* TestCaseExecutor.testCase
  isDestroyed,    \* TestCaseExecutor.isDestroyed
  listeners,      \* TRUE while the handlers registered with on() are attached
  agent,          \* AutomationAgent.agent (and .page): a driver id, 0 is null
  isInitialized,  \* AutomationAgent.isInitialized
  pc,             \* where the execute() in flight is suspended; "idle" if none
  i,              \* the loop index of executeStepsWithProgress
  step,           \* the step object the loop holds
  attached,       \* step is still testCase.steps[i]
  called,         \* the backend operation the dispatch in flight invoked
  pendingDestroy, \* a destroy() of the orchestrator awaits page.destroy()
  nextId,         \* the next fresh step id
  nextDriver,     \* the next fresh driver id; the drivers made are 1..nextDriver-1
  torn,           \* the drivers on which page.destroy() has been invoked
  dispatched,     \* the indexes handed to executeStep by the latest execute()
  runs,           \* the number of execute() calls made
  now,            \* the clock Date.now() reads
  emitted,        \* the events emitted by the latest action, in order
  ret,            \* the call the latest action settled, and how
  log,            \* the events of the latest parse() and of the execute() calls since
  statusAtCall,   \* the statuses the steps had when the latest execute() was called
  skippedShown,   \* the ids of the steps the chat message shows as skipped copies
  configManager,  \* the AIConfigManager: its configs, the stored copy, calls suspended
  sessionManager  \* the SessionManager: its sessions, save queue, and the stored copy

vars == <<testCase, isDestroyed, listeners, agent, isInitialized, pc, i, step,
          attached, called, pendingDestroy, nextId, nextDriver, torn,
          dispatched, runs, now, emitted, ret, log, statusAtCall,
          skippedShown, configManager, sessionManager>>

\* the variables of the orchestrator, its dispatcher and the chat message
executorVars == <<testCase, isDestroyed, listeners, agent, isInitialized, pc, i, step,
                  attached, called, pendingDestroy, nextId, nextDriver, torn,
                  dispatched, runs, now, emitted, ret, log, statusAtCall,
                  skippedShown>>

NoTime == 0
NoError == "<undefined>"
NoStep == [id |-> 0, status |-> "<none>"]
NoRet == [op |-> "none", outcome |-> "none"]
Ret(op, outcome) == [op |-> op, outcome |-> outcome]
Event(name, status, stepId) == [name |-> name, status |-> status, stepId |-> stepId]

(***************************************************************************)
(* The two managers next to the orchestrator, as their constructors leave  *)
(* them.  A null id is 0.                                                  *)
(***************************************************************************)
\* no call of the manager has settled yet
NoCall == [op |-> "none", id |-> 0, result |-> FALSE]

\* new AIConfigManager(): no configs; nothing stored under its key
NewConfigManager ==
  [configs |-> << >>, storage |-> << >>, nextId |-> 1, suspended |-> {}, ret |-> NoCall]

\* new SessionManager(): no sessions, no current session (0 is null), an empty
\* save queue, no save running, and the load from storage awaited
NewSessionManager ==
  [sessions |-> << >>, objects |-> << >>, currentSessionId |-> 0, saveQueue |-> << >>,
   isSaving |-> FALSE, sessionIds |-> << >>, batch |-> << >>, removing |-> {},
   loaded |-> "pending", storage |-> << >>, nextId |-> 1, clock |-> 1, changes |-> 0]

(***************************************************************************)
(* The chat message that shows the case (useChat).  Its steps are the      *)
(* orchestrator's own step objects, but for the copies a manual skip has   *)
(* put in their place.                                                     *)
(***************************************************************************)
\* what the handlers make of the events evs, delivered in order, and of the
\* result of execute(): a caseStatusChanged event and the final update put the
\* case's own steps in the message, a step event puts the one step back
Deliver(shown, evs, settled, on) ==
  IF \/ settled = Ret("execute", "resolved")
     \/ on /\ \E n \in 1..Len(evs) : evs[n].name = "caseStatusChanged"
    THEN {}
    ELSE IF on
      THEN shown \ {evs[n].stepId : n \in {m \in 1..Len(evs) : evs[m].name \in {"stepStarted", "stepCompleted"}}}
      ELSE shown

\* the handlers run on the events of this step of the system
Delivered == skippedShown' = Deliver(skippedShown, emitted', ret', listeners)

(***************************************************************************)
(* The inputs an orchestrator is constructed with.                         *)
(***************************************************************************)
Tap == [type |-> S("aiTap"), locate |-> S("login button")]
TapNoLocate == [type |-> S("aiTap")]
VerifyLocator ==
  [type |-> S("verifyLocator"), prompt |-> S("the logo"), expectCenter |-> O("point", "10,20")]

SampleActions == {Tap, TapNoLocate, VerifyLocator}

ActionLists == UNION {[1..n -> SampleActions] : n \in 0..MaxSteps}

CodeLines(m) == [n \in 1..m |-> ToString(n)]

\* the sequences with one display code per action, and those with one too few
RawSequences ==
  {[defined |-> TRUE, shaped |-> TRUE, actions |-> as, code |-> CodeLines(m)] :
     <<as, m>> \in {<<as, m>> \in ActionLists \X (0..MaxSteps) :
                      m \in {Len(as), Len(as) - 1}}}

Unshaped == [defined |-> TRUE, shaped |-> FALSE, actions |-> << >>, code |-> << >>]

Inputs ==
  {[actionSequence |-> s, code |-> [kind |-> "empty", json |-> NoSequence]] :
     s \in RawSequences \cup {Unshaped}}
  \cup {[actionSequence |-> NoSequence, code |-> [kind |-> "json", json |-> s]] :
     s \in RawSequences \cup {Unshaped}}
  \cup {[actionSequence |-> NoSequence, code |-> [kind |-> k, json |-> NoSequence]] :
     k \in {"undefined", "empty", "garbage"}}

(***************************************************************************)
(* Probes of the action validator: for every tag an action that fits its   *)
(* shape and actions that depart from it in one way.                       *)
(***************************************************************************)
\* a value the schema named by kind accepts
Sample(kind) ==
  CASE kind = "string"      -> S("text")
    [] kind = "number"      -> N("1")
    [] kind = "boolean"     -> B("true")
    [] kind = "key"         -> S("Enter")
    [] kind = "domInclude"  -> S("visible-only")
    [] kind = "dataDemand"  -> O("record", "title")
    [] kind = "point"       -> O("point", "10,20")
    [] kind = "scrollParam" -> O("scrollParam", "down once")

\* a value the schema named by kind refuses
Mistyped(kind) == IF kind \in {"string", "key", "dataDemand"} THEN N("1") ELSE S("oops")

Filled(shape) == [f \in DOMAIN shape |-> Sample(shape[f])]

WellFormed(tag) == [type |-> S(tag)] @@ Filled(RequiredShape(tag))

WithOptions(tag) == WellFormed(tag) @@ Filled(OptionalShape(tag))

ProbesOf(tag) ==
  {WellFormed(tag), WithOptions(tag), Put(WithOptions(tag), "xpath", S("//button"))}
  \cup {Restrict(WellFormed(tag), (DOMAIN WellFormed(tag)) \ {f}) : f \in DOMAIN RequiredShape(tag)}
  \cup {Put(WellFormed(tag), f, Mistyped(RequiredShape(tag)[f])) : f \in DOMAIN RequiredShape(tag)}
  \cup {Put(WellFormed(tag), f, Mistyped(OptionalShape(tag)[f])) : f \in DOMAIN OptionalShape(tag)}

ProbeActions ==
  UNION {ProbesOf(tag) : tag \in AIActionTypes}
  \cup {[type |-> S("aiClick"), locate |-> S("text")], [type |-> N("1")], [locate |-> S("text")]}

\* a code string holding the one action a and one display code
ProbeInput(a) ==
  [actionSequence |-> NoSequence,
   code |-> [kind |-> "json",
             json |-> [defined |-> TRUE, shaped |-> TRUE, actions |-> <<a>>,
                       code |-> CodeLines(1)]]]

\* new TestCaseExecutor(data) on the input in; useChat registers its four handlers
Construct(in) ==
  /\ testCase = [actionSequence |-> in.actionSequence, code |-> in.code,
                 steps |-> << >>, status |-> "created",
                 startTime |-> NoTime, endTime |-> NoTime, error |-> NoError]
  /\ isDestroyed = FALSE
  /\ listeners = TRUE
  /\ agent = 0
  /\ isInitialized = FALSE
  /\ pc = "idle"
  /\ i = 0
  /\ step = NoStep
  /\ attached = FALSE
  /\ called = "none"
  /\ pendingDestroy = FALSE
  /\ nextId = 1
  /\ nextDriver = 1
  /\ torn = {}
  /\ dispatched = {}
  /\ runs = 0
  /\ now = 1
  /\ emitted = << >>
  /\ ret = NoRet
  /\ log = << >>
  /\ statusAtCall = << >>
  /\ skippedShown = {}
  /\ configManager = NewConfigManager
  /\ sessionManager = NewSessionManager

Init == \E in \in Inputs : Construct(in)

(***************************************************************************)
(* TestCaseExecutor.parse                                                  *)
(***************************************************************************)
\* a slip in ParseFailure: the error recorded, the status left as it was
ParseFailureKeepsStatus(tc, r) == [tc EXCEPT !.error = r.error]

\* the catch block of parse(): lines 65-66
ParseFailure(tc, r) == [tc EXCEPT !.error = r.error, !.status = "failed"]

Parse ==
  /\ UNCHANGED <<statusAtCall, configManager, sessionManager>>
  /\ UNCHANGED <<isDestroyed, listeners, agent, isInitialized, pc, i, step, called,
                 pendingDestroy, nextDriver, torn, dispatched, runs, now>>
  /\ IF isDestroyed
       THEN /\ ret' = Ret("parse", "resolved")
            /\ emitted' = << >>
            /\ UNCHANGED <<testCase, nextId, attached>>
       ELSE LET r == parseTestCodeOrActionSequence(testCase.actionSequence,
                                                   testCase.code, nextId)
            IN IF r.ok
                 THEN /\ testCase' = [testCase EXCEPT !.steps = r.steps]
                      /\ nextId' = nextId + Len(r.steps)
                      /\ attached' = FALSE
                      /\ emitted' = <<Event("caseParsed", testCase.status, 0)>>
                      /\ ret' = Ret("parse", "resolved")
                 ELSE /\ testCase' = ParseFailure(testCase, r)
                      /\ emitted' = <<Event("caseStatusChanged", "failed", 0)>>
                      /\ ret' = Ret("parse", "rejected")
                      /\ UNCHANGED <<nextId, attached>>
  /\ log' = emitted'
  /\ Delivered

(***************************************************************************)
(* AutomationAgent: routing of executeStep's switch                        *)
(***************************************************************************)
TagOf(st) ==
  IF "type" \in DOMAIN st /\ st.type.k = "string" THEN st.type.v ELSE "<none>"

\* the tags the switch has a case for
SwitchCases ==
  {"ai", "aiAction", "aiTap", "aiInput", "aiHover", "aiKeyboardPress", "aiScroll",
   "aiRightClick", "aiDoubleClick", "aiQuery", "aiExtract", "aiAssert", "aiWaitFor",
   "aiLocate", "aiAsk", "aiBoolean", "aiNumber", "aiString", "logScreenshot",
   "runYaml", "setAIActionContext", "evaluateJavaScript", "describeElementAtPoint"}

\* the if () that guards the backend call inside a case
GuardHolds(st) ==
  LET tag == TagOf(st)
  IN CASE tag \in {"ai", "aiAction", "aiAsk", "aiBoolean", "aiNumber", "aiString"} ->
            Has(st, "prompt")
       [] tag \in {"aiTap", "aiHover", "aiRightClick", "aiDoubleClick", "aiLocate"} ->
            Has(st, "locate")
       [] tag = "aiInput" -> Has(st, "text") /\ Has(st, "locate")
       [] tag = "aiKeyboardPress" -> Has(st, "key")
       [] tag = "aiScroll" -> Has(st, "scrollParam")
       [] tag \in {"aiQuery", "aiExtract"} -> Has(st, "dataDemand")
       [] tag \in {"aiAssert", "aiWaitFor"} -> Has(st, "assertion")
       [] tag = "logScreenshot" -> TRUE
       [] tag = "runYaml" -> Has(st, "yamlScriptContent")
       [] tag = "setAIActionContext" -> Has(st, "actionContext")
       [] tag = "evaluateJavaScript" -> Has(st, "script")
       [] tag = "describeElementAtPoint" -> "x" \in DOMAIN st /\ "y" \in DOMAIN st
       [] OTHER -> FALSE

\* the method of the backend driver a case invokes
BackendOp(tag) ==
  CASE tag = "aiDoubleClick" -> "aiTap"
    [] tag = "aiExtract" -> "aiQuery"
    [] OTHER -> tag

(***************************************************************************)
(* What the backend can answer.                                            *)
(***************************************************************************)
Undefined == O("undefined", "")
Returns == {Undefined}
Exceptions ==
  {[isError |-> TRUE, message |-> "element not found"],
   [isError |-> TRUE, message |-> ""],
   [isError |-> FALSE, message |-> "a thrown string"]}

\* error instanceof Error ? error.message : 'Unknown error when executing step'
ErrorMessage(e) == IF e.isError THEN e.message ELSE "Unknown error when executing step"

\* the try block's tail: status, endTime, result
Succeed(st, r, t) == Put(Put(Put(st, "status", "success"), "endTime", t), "result", r)

\* a slip in Fail: the message also replaces the step's description
FailOverwritesDescription(st, e, t) ==
  Put(Put(Put(Put(st, "status", "failed"), "endTime", t), "error", ErrorMessage(e)),
      "description", ErrorMessage(e))

\* the catch block: status, endTime, error
Fail(st, e, t) == Put(Put(Put(st, "status", "failed"), "endTime", t), "error", ErrorMessage(e))

\* a write to the step object the loop holds; it shows in the case while the
\* object is still in the case's list
WriteStep(st) ==
  /\ step' = st
  /\ testCase' = IF attached THEN [testCase EXCEPT !.steps[i + 1] = st] ELSE testCase

(***************************************************************************)
(* AutomationAgent.reset / destroy                                         *)
(***************************************************************************)
\* AutomationAgent.destroy() up to its first suspension: with a driver it calls
\* page.destroy() and waits at `awaiting`; without one it runs reset() and the
\* caller goes on at `done`
AgentDestroy(awaiting, done) ==
  IF agent # 0
    THEN /\ torn' = torn \cup {agent}
         /\ pc' = awaiting
         /\ UNCHANGED <<agent, isInitialized>>
    ELSE /\ agent' = 0
         /\ isInitialized' = FALSE
         /\ pc' = done
         /\ UNCHANGED torn

\* a slip in Finally: executeStep without its finally block
FinallyWithoutDestroy ==
  /\ pc' = "settled"
  /\ UNCHANGED <<agent, isInitialized, torn>>

\* the finally block of executeStep
Finally == AgentDestroy("teardown", "settled")

\* isReady()
isReady == isInitialized /\ agent # 0

\* canExecute()
canExecute == isReady

(***************************************************************************)
(* TestCaseExecutor.execute / executeStepsWithProgress                     *)
(***************************************************************************)
\* a slip in EverySuccess: a case without steps counts as not successful
EverySuccessNonEmpty(steps) ==
  steps # << >> /\ \A n \in 1..Len(steps) : steps[n].status = "success"

\* result.every(step => step.status === 'success')
EverySuccess(steps) == \A n \in 1..Len(steps) : steps[n].status = "success"

\* a slip in FinalStatus: the two outcomes swapped
FinalStatusSwapped(success) == IF success THEN "failed" ELSE "completed"

\* success ? 'completed' : 'failed'
FinalStatus(success) == IF success THEN "completed" ELSE "failed"

\* a slip in ShouldBreak: the loop without its break
ShouldBreakNever(result) == FALSE

\* if (result.status === 'failed') break
ShouldBreak(result) == result.status = "failed"

\* a slip in MarkRunning: every step from idx on is marked running at once
MarkRunningAll(steps, idx, t) ==
  [n \in 1..Len(steps) |->
     IF n >= idx + 1 THEN Put(Put(steps[n], "status", "running"), "startTime", t)
                     ELSE steps[n]]

\* lines 98-99: step.status = 'running'; step.startTime = Date.now()
MarkRunning(steps, idx, t) ==
  [steps EXCEPT ![idx + 1] = Put(Put(steps[idx + 1], "status", "running"), "startTime", t)]

\* lines 77-83 of execute(): the loop is over, tc is the case, evs the events
\* this stretch has emitted so far
FinishExecute(tc, evs, disp) ==
  LET status == FinalStatus(EverySuccess(tc.steps))
  IN /\ testCase' = [tc EXCEPT !.status = status, !.endTime = now]
     /\ emitted' = Append(evs, Event("caseStatusChanged", status, 0))
     /\ ret' = Ret("execute", "resolved")
     /\ pc' = "idle"
     /\ i' = 0
     /\ step' = NoStep
     /\ attached' = FALSE
     /\ called' = "none"
     /\ dispatched' = disp
     /\ UNCHANGED <<agent, isInitialized, torn>>

\* the head of the for loop at index idx, down to the first await of executeStep
EnterLoop(tc, idx, evs, disp) ==
  IF idx < Len(tc.steps)
    THEN LET marked == MarkRunning(tc.steps, idx, now)
             st == marked[idx + 1]
         IN /\ testCase' = [tc EXCEPT !.steps = marked]
            /\ i' = idx
            /\ step' = st
            /\ attached' = TRUE
            /\ called' = "none"
            /\ dispatched' = disp \cup {idx}
            /\ emitted' = Append(evs, Event("stepStarted", "", st.id))
            /\ ret' = NoRet
            /\ AgentDestroy("preDestroy", "preDestroyed")
    ELSE FinishExecute(tc, evs, disp)

\* execute(), down to the first await of the first executeStep; cap bounds the
\* number of execute() calls made on one orchestrator
ExecuteWithin(cap) ==
  /\ pc = "idle"
  /\ runs < cap
  /\ runs' = runs + 1
  /\ statusAtCall' = [n \in 1..Len(testCase.steps) |-> testCase.steps[n].status]
  /\ UNCHANGED <<configManager, sessionManager>>
  /\ EnterLoop([testCase EXCEPT !.status = "running", !.startTime = now], 0,
               <<Event("caseStatusChanged", "running", 0)>>, {})
  /\ log' = log \o emitted'
  /\ UNCHANGED <<isDestroyed, listeners, pendingDestroy, nextId, nextDriver, now>>
  /\ Delivered

Execute == ExecuteWithin(MaxRuns)

\* executeStep line 548: createAgent()
createAgent ==
  /\ UNCHANGED <<statusAtCall, configManager, sessionManager>>
  /\ pc = "preDestroyed"
  /\ agent' = nextDriver
  /\ nextDriver' = nextDriver + 1
  /\ isInitialized' = TRUE
  /\ pc' = "created"
  /\ emitted' = << >>
  /\ ret' = NoRet
  /\ UNCHANGED <<testCase, isDestroyed, listeners, i, step, attached, called,
                 pendingDestroy, nextId, torn, dispatched, runs, now>>
  /\ log' = log \o emitted'
  /\ Delivered

\* executeStep lines 550-552 with no driver: the throw is outside the try, so
\* executeStep rejects, executeStepsWithProgress rejects, and the catch of
\* execute() sets the case failed and rethrows
DispatchRejects ==
  /\ UNCHANGED <<statusAtCall, configManager, sessionManager>>
  /\ pc = "created"
  /\ agent = 0
  /\ testCase' = [testCase EXCEPT !.status = "failed"]
  /\ emitted' = <<Event("caseStatusChanged", "failed", 0)>>
  /\ ret' = Ret("execute", "rejected")
  /\ pc' = "idle"
  /\ i' = 0
  /\ step' = NoStep
  /\ attached' = FALSE
  /\ called' = "none"
  /\ UNCHANGED <<isDestroyed, listeners, agent, isInitialized, pendingDestroy, nextId,
                 nextDriver, torn, dispatched, runs, now>>
  /\ log' = log \o emitted'
  /\ Delivered

\* executeStep lines 554-749: the switch, down to the await of the backend call
\* or, when no call is awaited, through the catch and into the finally
Dispatch ==
  /\ UNCHANGED <<statusAtCall, configManager, sessionManager>>
  /\ pc = "created"
  /\ agent # 0
  /\ emitted' = << >>
  /\ ret' = NoRet
  /\ UNCHANGED <<isDestroyed, listeners, i, attached, pendingDestroy, nextId,
                 nextDriver, dispatched, runs, now, log>>
  /\ LET st == IF "startTime" \in DOMAIN step THEN step ELSE Put(step, "startTime", now)
         tag == TagOf(st)
     IN CASE tag \notin SwitchCases ->
               /\ WriteStep(Fail(st, [isError |-> TRUE, message |-> "Unsupported step type"], now))
               /\ called' = "none"
               /\ Finally
          [] tag \in SwitchCases /\ ~GuardHolds(st) ->
               /\ WriteStep(Succeed(st, Undefined, now))
               /\ called' = "none"
               /\ Finally
          [] tag = "setAIActionContext" /\ GuardHolds(st) ->
               /\ WriteStep(Succeed(st, B("true"), now))
               /\ called' = BackendOp(tag)
               /\ Finally
          [] OTHER ->
               /\ WriteStep(st)
               /\ called' = BackendOp(tag)
               /\ pc' = "backend"
               /\ UNCHANGED <<agent, isInitialized, torn>>
  /\ Delivered

\* the awaited backend call returns
BackendReturn ==
  /\ UNCHANGED <<statusAtCall, configManager, sessionManager>>
  /\ pc = "backend"
  /\ \E d \in {0, 1}, r \in Returns :
       /\ now + d <= MaxClock
       /\ now' = now + d
       /\ WriteStep(Succeed(step, r, now'))
  /\ Finally
  /\ emitted' = << >>
  /\ ret' = NoRet
  /\ UNCHANGED <<isDestroyed, listeners, i, attached, called, pendingDestroy, nextId,
                 nextDriver, dispatched, runs>>
  /\ log' = log \o emitted'
  /\ Delivered

\* the awaited backend call throws
BackendRaise ==
  /\ UNCHANGED <<statusAtCall, configManager, sessionManager>>
  /\ pc = "backend"
  /\ \E d \in {0, 1}, e \in Exceptions :
       /\ now + d <= MaxClock
       /\ now' = now + d
       /\ WriteStep(Fail(step, e, now'))
  /\ Finally
  /\ emitted' = << >>
  /\ ret' = NoRet
  /\ UNCHANGED <<isDestroyed, listeners, i, attached, called, pendingDestroy, nextId,
                 nextDriver, dispatched, runs>>
  /\ log' = log \o emitted'
  /\ Delivered

\* the page.destroy() that a destroy() of executeStep awaits settles (a throw is
\* caught by destroy()) and reset() runs: at line 547 executeStep goes on to
\* createAgent(), at line 759 it resolves with the step
AgentDestroyDone ==
  /\ UNCHANGED <<statusAtCall, configManager, sessionManager>>
  /\ pc \in {"preDestroy", "teardown"}
  /\ agent' = 0
  /\ isInitialized' = FALSE
  /\ pc' = IF pc = "preDestroy" THEN "preDestroyed" ELSE "settled"
  /\ emitted' = << >>
  /\ ret' = NoRet
  /\ UNCHANGED <<testCase, isDestroyed, listeners, i, step, attached, called,
                 pendingDestroy, nextId, nextDriver, torn, dispatched, runs, now>>
  /\ log' = log \o emitted'
  /\ Delivered

\* executeStepsWithProgress lines 103-108, and the next turn of the loop
StepCompleted ==
  /\ UNCHANGED <<statusAtCall, configManager, sessionManager>>
  /\ pc = "settled"
  /\ LET evs == <<Event("stepCompleted", "", step.id)>>
     IN IF ShouldBreak(step)
          THEN FinishExecute(testCase, evs, dispatched)
          ELSE EnterLoop(testCase, i + 1, evs, dispatched)
  /\ log' = log \o emitted'
  /\ UNCHANGED <<isDestroyed, listeners, pendingDestroy, nextId, nextDriver, runs, now>>
  /\ Delivered

(***************************************************************************)
(* TestCaseExecutor.stop / reset / destroy                                 *)
(***************************************************************************)
\* a slip in Stop: stop() without its test of the status
StopUnguarded ==
  /\ UNCHANGED <<statusAtCall, configManager, sessionManager>>
  /\ testCase' = [testCase EXCEPT !.status = "stopped"]
  /\ emitted' = <<Event("caseStatusChanged", "stopped", 0)>>
  /\ ret' = Ret("stop", "returned")
  /\ UNCHANGED <<isDestroyed, listeners, agent, isInitialized, pc, i, step, attached,
                 called, pendingDestroy, nextId, nextDriver, torn, dispatched, runs, now,
                 log>>
  /\ Delivered

Stop ==
  /\ UNCHANGED <<statusAtCall, configManager, sessionManager>>
  /\ IF testCase.status = "running"
       THEN /\ testCase' = [testCase EXCEPT !.status = "stopped"]
            /\ emitted' = <<Event("caseStatusChanged", "stopped", 0)>>
       ELSE /\ emitted' = << >>
            /\ UNCHANGED testCase
  /\ ret' = Ret("stop", "returned")
  /\ UNCHANGED <<isDestroyed, listeners, agent, isInitialized, pc, i, step, attached,
                 called, pendingDestroy, nextId, nextDriver, torn, dispatched, runs, now,
                 log>>
  /\ Delivered

Reset ==
  /\ testCase' = [testCase EXCEPT !.status = "created", !.steps = << >>]
  /\ attached' = FALSE
  /\ emitted' = <<Event("caseStatusChanged", "created", 0)>>
  /\ ret' = Ret("reset", "returned")
  /\ log' = << >>
  /\ statusAtCall' = << >>
  /\ UNCHANGED <<configManager, sessionManager>>
  /\ Delivered
  /\ UNCHANGED <<isDestroyed, listeners, agent, isInitialized, pc, i, step, called,
                 pendingDestroy, nextId, nextDriver, torn, dispatched, runs, now>>

\* destroy() down to the await of agent.destroy()
Destroy ==
  /\ UNCHANGED <<statusAtCall, configManager, sessionManager>>
  /\ ~pendingDestroy
  /\ isDestroyed' = TRUE
  /\ listeners' = FALSE
  /\ emitted' = << >>
  /\ IF agent # 0
       THEN /\ torn' = torn \cup {agent}
            /\ pendingDestroy' = TRUE
            /\ ret' = NoRet
            /\ UNCHANGED <<agent, isInitialized>>
       ELSE /\ agent' = 0
            /\ isInitialized' = FALSE
            /\ ret' = Ret("destroy", "resolved")
            /\ UNCHANGED <<torn, pendingDestroy>>
  /\ UNCHANGED <<testCase, pc, i, step, attached, called, nextId, nextDriver,
                 dispatched, runs, now, log>>
  /\ Delivered

\* the page.destroy() that destroy() awaits settles: reset() runs, destroy() resolves
DestroyDone ==
  /\ UNCHANGED <<statusAtCall, configManager, sessionManager>>
  /\ pendingDestroy
  /\ pendingDestroy' = FALSE
  /\ agent' = 0
  /\ isInitialized' = FALSE
  /\ emitted' = << >>
  /\ ret' = Ret("destroy", "resolved")
  /\ UNCHANGED <<testCase, isDestroyed, listeners, pc, i, step, attached, called,
                 nextId, nextDriver, torn, dispatched, runs, now, log>>
  /\ Delivered

(***************************************************************************)
(* The steps of an execute() in flight.                                    *)
(***************************************************************************)
Running ==
  \/ createAgent
  \/ Dispatch
  \/ DispatchRejects
  \/ BackendReturn
  \/ BackendRaise
  \/ AgentDestroyDone
  \/ StepCompleted

(***************************************************************************)
(* Spec: the orchestrator driven by a caller that keeps to the lifecycle   *)
(* of a case: parse() on a created case that has no steps, execute() on a  *)
(* created case, reset() on a terminal case with no execute() in flight;   *)
(* stop() and destroy() at any time (useChat.cleanup calls destroy() while *)
(* execute() is in flight).                                                *)
(***************************************************************************)
Terminal == {"completed", "failed", "stopped"}

ParseCall == pc = "idle" /\ testCase.status = "created" /\ testCase.steps = << >> /\ Parse
ExecuteCall == testCase.status = "created" /\ Execute
ResetCall == pc = "idle" /\ testCase.status \in Terminal /\ runs < MaxRuns /\ Reset

Next ==
  \/ ParseCall
  \/ ExecuteCall
  \/ Running
  \/ Stop
  \/ ResetCall
  \/ Destroy
  \/ DestroyDone

Spec == Init /\ [][Next]_vars

(***************************************************************************)
(* SpecFree: a caller that also calls execute() again on a case it did not *)
(* reset, and reset() while an execute() is in flight.                     *)
(***************************************************************************)
ExecuteAgain == testCase.status \in Terminal /\ ExecuteWithin(MaxRuns + MaxReruns)
ResetDuringRun == pc # "idle" /\ Reset

NextFree ==
  \/ Next
  \/ ExecuteAgain
  \/ ResetDuringRun

SpecFree == Init /\ [][NextFree]_vars

(***************************************************************************)
(* getTestCase() returns { ...this.testCase }: a new object with the case's *)
(* top-level fields, whose steps is the case's own array of the case's own *)
(* step objects.  Each action below is one synchronous stretch of a caller *)
(* that, having called execute(), takes a snapshot s and writes through it.*)
(***************************************************************************)
SnapshotFrame ==
  /\ UNCHANGED <<statusAtCall, configManager, sessionManager>>
  /\ runs > 0
  /\ emitted' = << >>
  /\ ret' = Ret("getTestCase", "returned")
  /\ UNCHANGED <<isDestroyed, listeners, agent, isInitialized, pc, i, called,
                 pendingDestroy, nextId, nextDriver, torn, dispatched, runs, now, log>>
  /\ Delivered

\* s.status = 'created': a write to a top-level field of the new object
SnapshotSetStatus ==
  /\ SnapshotFrame
  /\ UNCHANGED <<testCase, step, attached>>

\* s.steps.pop(): a write to the array
SnapshotPop ==
  /\ testCase.steps # << >>
  /\ testCase' = [testCase EXCEPT !.steps = SubSeq(testCase.steps, 1, Len(testCase.steps) - 1)]
  /\ attached' = (attached /\ i + 1 < Len(testCase.steps))
  /\ UNCHANGED step
  /\ SnapshotFrame

\* s.steps[k].status = 'skipped': a write to a step object
SnapshotSkip ==
  /\ \E k \in 1..Len(testCase.steps) :
       /\ testCase' = [testCase EXCEPT !.steps[k] = Put(testCase.steps[k], "status", "skipped")]
       /\ step' = IF attached /\ k = i + 1 THEN Put(step, "status", "skipped") ELSE step
  /\ UNCHANGED attached
  /\ SnapshotFrame

NextSnapshot ==
  \/ Next
  \/ SnapshotSetStatus
  \/ SnapshotPop
  \/ SnapshotSkip

\* the pre-supplied sequences of aiTap actions with one display code each, and
\* the pre-supplied object that is no sequence
SnapshotInputs ==
  {in \in Inputs :
     /\ in.actionSequence.defined
     /\ Len(in.actionSequence.code) = Len(in.actionSequence.actions)
     /\ \A n \in 1..Len(in.actionSequence.actions) : in.actionSequence.actions[n] = Tap}

InitSnapshot == \E in \in SnapshotInputs : Construct(in)

SpecSnapshot == InitSnapshot /\ [][NextSnapshot]_vars

(***************************************************************************)
(* SpecValidate: parse() applied to each probe of the validator.           *)
(***************************************************************************)
InitValidate == \E a \in ProbeActions : Construct(ProbeInput(a))

SpecValidate == InitValidate /\ [][ParseCall]_vars

(***************************************************************************)
(* Properties.                                                             *)
(***************************************************************************)
Steps == testCase.steps
StatusAt(k) == Steps[k + 1].status
Indexes == 0..(Len(Steps) - 1)
ExecuteReturned == ret = Ret("execute", "resolved")
ExecuteSettled == ret \in {Ret("execute", "resolved"), Ret("execute", "rejected")}
\* the driver createAgent() made for the dispatch in flight
StepDriver == nextDriver - 1

\* step k is the first step of the case that ended failed
FirstFailed(k) ==
  /\ k \in Indexes
  /\ StatusAt(k) = "failed"
  /\ \A j \in Indexes : j < k => StatusAt(j) # "failed"

\* C1. Fail-fast: when execute() returns and step k is the first step whose
\* dispatch ended failed, no step after k has been dispatched, every step after
\* k is still pending, every step before k is success, and the case is failed.
C1_FailFast ==
  ExecuteSettled =>
    \A k \in Indexes :
      FirstFailed(k) =>
        /\ k \in dispatched
        /\ \A j \in Indexes : j > k => j \notin dispatched /\ StatusAt(j) = "pending"
        /\ \A j \in Indexes : j < k => StatusAt(j) = "success"
        /\ testCase.status = "failed"

\* execute() has returned from a case of three steps whose second step failed
\* on an exception of the backend
C1_Witness ==
  /\ ExecuteReturned
  /\ Len(Steps) = 3
  /\ FirstFailed(1)
  /\ Steps[2].error = "element not found"
  /\ StatusAt(0) = "success"
  /\ StatusAt(2) = "pending"

\* C2. All-success: when execute() returns and every step it dispatched ended
\* success, the case is completed, every step is success, and the case's end
\* time is set and is not before its start time.
C2_AllSuccess ==
  (ExecuteReturned /\ \A j \in dispatched : j \in Indexes /\ StatusAt(j) = "success") =>
    /\ testCase.status = "completed"
    /\ \A j \in Indexes : StatusAt(j) = "success"
    /\ testCase.endTime # NoTime
    /\ testCase.startTime # NoTime
    /\ testCase.endTime >= testCase.startTime

\* execute() has returned from a case of two steps, both success, after the
\* clock moved
C2_Witness ==
  /\ ExecuteReturned
  /\ Len(Steps) = 2
  /\ dispatched = {0, 1}
  /\ testCase.status = "completed"
  /\ testCase.endTime > testCase.startTime

\* C3. executeStep never rejects: execute() is never rejected by a throw of
\* executeStep, and a dispatch that settles failed carries the message of
\* the error it caught.
C3_NeverRejects ==
  /\ ret # Ret("execute", "rejected")
  /\ (pc = "settled" /\ step.status = "failed") =>
       /\ "error" \in DOMAIN step
       /\ step.error \in {ErrorMessage(e) : e \in Exceptions} \cup {"Unsupported step type"}

\* executeStep threw 'Agent not initialized' out of the second step: execute()
\* rejected, the step is left running and the case failed
C3_Rejected ==
  /\ ret = Ret("execute", "rejected")
  /\ Len(Steps) >= 2
  /\ StatusAt(0) = "success"
  /\ StatusAt(1) = "running"
  /\ testCase.status = "failed"

\* C4. Driver isolation: the driver a dispatch uses is the one createAgent()
\* has just made, and every driver made before it has been destroyed.
C4_DriverIsolation ==
  (pc \in {"created", "backend"} /\ agent # 0) =>
    /\ agent = StepDriver
    /\ \A d \in 1..(agent - 1) : d \in torn

\* the third step runs on its driver while the second step's was never destroyed
C4_Overlap ==
  /\ pc = "backend"
  /\ i = 2
  /\ agent = 3
  /\ 2 \notin torn

\* C5. Guaranteed teardown: when executeStep settles, the driver made for the
\* step has been destroyed and the dispatcher holds no driver.
C5_Teardown ==
  pc = "settled" =>
    /\ StepDriver \in torn
    /\ agent = 0
    /\ ~isInitialized

\* executeStep settled after a backend call while its driver was never destroyed
C5_Leak ==
  /\ pc = "settled"
  /\ called # "none"
  /\ StepDriver \notin torn
  /\ step.status = "success"

C7_Sequential ==
  /\ Cardinality({k \in Indexes : StatusAt(k) = "running"}) <= 1
  /\ pc # "idle" =>
       /\ dispatched = 0..i
       /\ \A j \in 0..(i - 1) : StatusAt(j) = "success"
       /\ \A j \in Indexes : j > i => StatusAt(j) = "pending"

\* the second of three steps is running in its backend call
C7_Witness ==
  /\ pc = "backend"
  /\ Len(Steps) = 3
  /\ i = 1
  /\ StatusAt(0) = "success"
  /\ StatusAt(1) = "running"
  /\ StatusAt(2) = "pending"

\* C8. When parse() has rejected, the case error is the message of the
\* failure, the case is failed, caseStatusChanged(failed) is the only event
\* emitted (no caseParsed), and the step list is empty.
C8_ParseFailure ==
  ret = Ret("parse", "rejected") =>
    /\ testCase.error =
         parseTestCodeOrActionSequence(testCase.actionSequence, testCase.code, nextId).error
    /\ testCase.error # NoError
    /\ testCase.status = "failed"
    /\ emitted = <<Event("caseStatusChanged", "failed", 0)>>
    /\ testCase.steps = << >>

\* parse() rejected a code string whose JSON holds an action the schema refuses
C8_Witness ==
  /\ ret = Ret("parse", "rejected")
  /\ testCase.code.kind = "json"
  /\ testCase.code.json.shaped
  /\ ~ActionSequenceValid(testCase.code.json)
  /\ testCase.error = "Failed to parse test code: ZodError"
  /\ testCase.status = "failed"

\* C9. No step is built from a malformed action: every step of the case
\* satisfies the shape of its tag, and so does the step a dispatch holds.
C9_NoMalformedStep ==
  /\ \A k \in Indexes : AIActionValid(Steps[k + 1])
  /\ pc # "idle" => AIActionValid(step)

\* a pre-supplied aiTap without locate became a step, was dispatched and ended
\* success without a backend call
C9_MalformedDispatched ==
  /\ pc = "settled"
  /\ testCase.actionSequence.defined
  /\ ~AIActionValid(step)
  /\ called = "none"
  /\ step.status = "success"

\* the action sequence parse() reads
SourceSequence ==
  IF testCase.actionSequence.defined THEN testCase.actionSequence ELSE testCase.code.json

\* C10. Sequence length invariant: a case has steps only if its sequence has
\* as many display codes as actions, and every step has a rawCode.
C10_LengthInvariant ==
  Steps # << >> =>
    /\ Len(SourceSequence.code) = Len(SourceSequence.actions)
    /\ \A k \in Indexes : "rawCode" \in DOMAIN Steps[k + 1]

\* a code string of two valid actions and one display code parsed into two
\* steps, the second without rawCode
C10_MissingRawCode ==
  /\ ret = Ret("parse", "resolved")
  /\ ~testCase.actionSequence.defined
  /\ Len(testCase.code.json.actions) = 2
  /\ Len(testCase.code.json.code) = 1
  /\ Len(Steps) = 2
  /\ "rawCode" \in DOMAIN Steps[1]
  /\ "rawCode" \notin DOMAIN Steps[2]

\* the action of a case built from a probe
Probe == testCase.code.json.actions[1]
ShapeKeys(a) == {"type"} \cup DOMAIN RequiredShape(a.type.v) \cup DOMAIN OptionalShape(a.type.v)
UnknownTag(a) == "type" \notin DOMAIN a \/ a.type \notin {S(t) : t \in AIActionTypes}
MissingRequired(a) == \E f \in DOMAIN RequiredShape(a.type.v) : f \notin DOMAIN a
MistypedField(a) ==
  \/ \E f \in (DOMAIN RequiredShape(a.type.v)) \cap DOMAIN a : ~Accepts(RequiredShape(a.type.v)[f], a[f])
  \/ \E f \in (DOMAIN OptionalShape(a.type.v)) \cap DOMAIN a : ~Accepts(OptionalShape(a.type.v)[f], a[f])
ExtraKey(a) == ~(DOMAIN a \subseteq ShapeKeys(a))
Departs(a) == UnknownTag(a) \/ MissingRequired(a) \/ MistypedField(a) \/ ExtraKey(a)

\* C11. Closed-shape validation: parse() of a code string rejects when the
\* action has an unknown tag, a missing or mistyped field of its shape, or a
\* key outside its shape, and resolves with one step when it has none of these.
C11_ClosedShape ==
  /\ ret = Ret("parse", "rejected") => Departs(Probe)
  /\ ret = Ret("parse", "resolved") => ~Departs(Probe) /\ Len(Steps) = 1

\* parse() resolved on an aiTap carrying the key xpath next to deepThink and
\* cacheable; the step was built without that key
C11_ExtraKeyDropped ==
  /\ ret = Ret("parse", "resolved")
  /\ Probe.type = S("aiTap")
  /\ "deepThink" \in DOMAIN Probe
  /\ "xpath" \in DOMAIN Probe
  /\ Len(Steps) = 1
  /\ "xpath" \notin DOMAIN Steps[1]
  /\ "deepThink" \in DOMAIN Steps[1]

\* C13. Every step in status failed carries a non-empty error string.
C13_FailedHasError ==
  \A k \in Indexes :
    StatusAt(k) = "failed" =>
      /\ "error" \in DOMAIN Steps[k + 1]
      /\ Steps[k + 1].error # ""

\* the backend raised an Error whose message is empty: the step is failed and
\* its error is the empty string
C13_EmptyError ==
  /\ ExecuteReturned
  /\ Len(Steps) >= 1
  /\ StatusAt(0) = "failed"
  /\ Steps[1].error = ""
  /\ testCase.status = "failed"

\* C15. Terminal case statuses: a step of the system that changes a case
\* status that is completed, failed or stopped is a reset().
C15_TerminalStable ==
  [][(testCase.status \in Terminal /\ testCase'.status # testCase.status)
       => ret' = Ret("reset", "returned")]_vars

\* the changes of status a step may make
AllowedStepChanges ==
  {<<"pending", "running">>, <<"running", "success">>, <<"running", "failed">>,
   <<"success", "skipped">>, <<"failed", "pending">>}

\* holds of a step of the system when st, a step of the case before it, and
\* nx, a step of the case after it, are the same step
SameStep(st, nx) == st.id = nx.id

\* C12. Step state machine: in every step of the system, a step of the case
\* keeps its status or changes it along pending->running, running->success,
\* running->failed, success->skipped or failed->pending.
C12_StepStateMachine ==
  [][\A k \in 1..Len(testCase.steps), m \in 1..Len(testCase'.steps) :
       SameStep(testCase.steps[k], testCase'.steps[m]) =>
         \/ testCase'.steps[m].status = testCase.steps[k].status
         \/ <<testCase.steps[k].status, testCase'.steps[m].status>> \in AllowedStepChanges]_vars

\* a second execute() is running the first step of a case whose second step
\* is still success from the first execute()
C12_RunningAfterSuccess ==
  /\ runs = 2
  /\ pc = "backend"
  /\ i = 0
  /\ Len(Steps) >= 2
  /\ StatusAt(0) = "running"
  /\ StatusAt(1) = "success"

\* the stamp f of step st is kept by nx
KeepsStamp(st, nx, f) == f \in DOMAIN st => (f \in DOMAIN nx /\ nx[f] = st[f])

\* C14. Step time stamping: a step that is running, success or failed has a
\* startTime, a step that is success or failed has an endTime not before its
\* startTime, and no step of the system changes a startTime or an endTime that
\* a step of the case already has.
C14_Stamps ==
  /\ [](\A k \in Indexes :
          /\ StatusAt(k) \in {"running", "success", "failed"} => "startTime" \in DOMAIN Steps[k + 1]
          /\ StatusAt(k) \in {"success", "failed"} =>
                /\ "endTime" \in DOMAIN Steps[k + 1]
                /\ Steps[k + 1].endTime >= Steps[k + 1].startTime)
  /\ [][\A k \in 1..Len(testCase.steps), m \in 1..Len(testCase'.steps) :
          SameStep(testCase.steps[k], testCase'.steps[m]) =>
            /\ KeepsStamp(testCase.steps[k], testCase'.steps[m], "startTime")
            /\ KeepsStamp(testCase.steps[k], testCase'.steps[m], "endTime")]_vars

\* a second execute() has run the first step again: the stamps it got in the
\* first execute(), at time 1, have been overwritten at time 2
C14_Restamped ==
  /\ runs = 2
  /\ pc = "settled"
  /\ i = 0
  /\ testCase.startTime = 2
  /\ StatusAt(0) = "success"
  /\ Steps[1].startTime = 2
  /\ Steps[1].endTime = 2

\* C16. reset() while the case status is running changes nothing of the case;
\* in any other status it sets the status created, empties the step list and
\* emits one caseStatusChanged.
C16_ResetGuarded ==
  [][ret' = Ret("reset", "returned") =>
       IF testCase.status = "running"
         THEN testCase' = testCase
         ELSE /\ testCase'.status = "created"
              /\ testCase'.steps = << >>
              /\ emitted' = <<Event("caseStatusChanged", "created", 0)>>]_vars

\* reset() ran while the second step was in its backend call: the case is
\* created with no steps and the step in flight is still running
C16_ResetInFlight ==
  /\ ret = Ret("reset", "returned")
  /\ pc = "backend"
  /\ i = 1
  /\ step.status = "running"
  /\ testCase.status = "created"
  /\ testCase.steps = << >>

\* C19. Defensive snapshot: a caller's write through a snapshot returned by
\* getTestCase() changes neither the case nor the step an execute() holds.
C19_DefensiveSnapshot ==
  [][ret' = Ret("getTestCase", "returned") => (testCase' = testCase /\ step' = step)]_vars

\* execute() has returned failed over a case none of whose steps failed: a
\* caller had set a success step to skipped through a snapshot
C19_SnapshotReachesCase ==
  /\ ExecuteReturned
  /\ testCase.status = "failed"
  /\ Len(Steps) = 2
  /\ StatusAt(0) = "skipped"
  /\ StatusAt(1) = "success"

\* C17. stop() on a running case sets the status stopped and emits one
\* caseStatusChanged; on any other case it changes nothing and emits nothing;
\* in both cases the steps, the step in flight, the position of execute() and
\* the driver are as before.
C17_StopFrame ==
  [][ret' = Ret("stop", "returned") =>
       /\ IF testCase.status = "running"
            THEN /\ testCase' = [testCase EXCEPT !.status = "stopped"]
                 /\ emitted' = <<Event("caseStatusChanged", "stopped", 0)>>
            ELSE /\ testCase' = testCase
                 /\ emitted' = << >>
       /\ testCase'.steps = testCase.steps
       /\ UNCHANGED <<step, pc, i, called, agent, isInitialized, torn, dispatched>>]_vars

\* stop() was called while the second step's backend call is in flight: the
\* case is stopped, the step still running on its driver
C17_Witness ==
  /\ ret = Ret("stop", "returned")
  /\ testCase.status = "stopped"
  /\ pc = "backend"
  /\ i = 1
  /\ StatusAt(1) = "running"
  /\ isReady

\* every destroy() called so far has resolved
DestroyResolved == isDestroyed /\ ~pendingDestroy

\* C18. destroy() is idempotent and releases everything: once it has been
\* called no handler is attached, once it has resolved the dispatcher holds no
\* driver, and a further destroy() resolves at once and changes nothing.
C18_DestroyIdempotent ==
  /\ [](isDestroyed => ~listeners)
  /\ [](DestroyResolved => (agent = 0 /\ ~isInitialized))
  /\ [][(DestroyResolved /\ Destroy) =>
          /\ ret' = Ret("destroy", "resolved")
          /\ UNCHANGED <<testCase, listeners, agent, isInitialized, torn>>]_vars

\* destroy() has resolved and the execute() in flight runs its second step on
\* a driver made afterwards
C18_DriverAfterDestroy ==
  /\ DestroyResolved
  /\ pc = "backend"
  /\ i = 1
  /\ agent = 2
  /\ isReady

\* caseStatusChanged carrying the status running
RunStarted == Event("caseStatusChanged", "running", 0)

\* C20. Event ordering of parse() and execute(): caseParsed comes first; no
\* step event precedes caseStatusChanged(running); a stepStarted directly
\* follows caseStatusChanged(running) or a stepCompleted; a stepCompleted
\* directly follows the stepStarted of its step; the caseStatusChanged that
\* ends execute() is last and directly follows a stepCompleted (or, with no
\* step, caseStatusChanged(running)); and with no execute() in flight every
\* stepStarted is followed by the stepCompleted of its step.
C20_EventOrder ==
  \A q \in 1..Len(log) :
    /\ log[q].name = "caseParsed" => q = 1
    /\ log[q] = RunStarted =>
         \A p \in 1..(q - 1) : log[p].name \notin {"stepStarted", "stepCompleted"}
    /\ log[q].name = "stepStarted" =>
         /\ q > 1
         /\ log[q - 1] = RunStarted \/ log[q - 1].name = "stepCompleted"
    /\ log[q].name = "stepCompleted" =>
         /\ q > 1
         /\ log[q - 1] = Event("stepStarted", "", log[q].stepId)
    /\ (log[q].name = "caseStatusChanged" /\ \E p \in 1..(q - 1) : log[p] = RunStarted) =>
         /\ log[q].status \in {"completed", "failed"}
         /\ q = Len(log)
         /\ log[q - 1] = RunStarted \/ log[q - 1].name = "stepCompleted"
    /\ (pc = "idle" /\ log[q].name = "stepStarted") =>
         /\ q < Len(log)
         /\ log[q + 1] = Event("stepCompleted", "", log[q].stepId)

\* execute() rejected out of its second step: the log ends with that step's
\* stepStarted and caseStatusChanged(failed), with no stepCompleted between
C20_StartedNeverCompleted ==
  /\ ret = Ret("execute", "rejected")
  /\ Len(log) = 6
  /\ log[1].name = "caseParsed"
  /\ log[2] = RunStarted
  /\ log[3].name = "stepStarted"
  /\ log[4].name = "stepCompleted"
  /\ log[5].name = "stepStarted"
  /\ log[6] = Event("caseStatusChanged", "failed", 0)

(***************************************************************************)
(* SpecRoute: a case of one step for every probe of the validator and for  *)
(* every well-formed action whose required string is the empty string,     *)
(* parsed from a code string and executed.                                 *)
(***************************************************************************)
\* the well-formed actions of a tag with one required string field left empty
EmptyStringProbes(tag) ==
  {Put(WellFormed(tag), f, S("")) :
     f \in {f \in DOMAIN RequiredShape(tag) : RequiredShape(tag)[f] = "string"}}

RouteActions == ProbeActions \cup UNION {EmptyStringProbes(tag) : tag \in AIActionTypes}

InitRoute == \E a \in RouteActions : Construct(ProbeInput(a))

SpecRoute == InitRoute /\ [][Next]_vars

(***************************************************************************)
(* The options bag executeStep hands to the backend operation.             *)
(***************************************************************************)
OptionKeys ==
  {"deepThink", "xpath", "cacheable", "autoDismissKeyboard", "domIncluded",
   "screenshotIncluded", "timeoutMs", "checkIntervalMs", "verifyPrompt", "retryLimit"}

\* buildExecutionOptions(step): if ('f' in step && step.f !== undefined) options.f = step.f
buildExecutionOptions(st) ==
  [f \in {f \in OptionKeys \cap DOMAIN st : st[f] # Undefined} |-> st[f]]

\* step.f ?? d
Coalesce(st, f, d) ==
  IF f \in DOMAIN st /\ st[f].k \notin {"undefined", "null"} THEN st[f] ELSE d

\* step.f || d
OrElse(st, f, d) == IF Has(st, f) THEN st[f] ELSE d

\* step.f, undefined when the step has no such field
Field(st, f) == IF f \in DOMAIN st THEN st[f] ELSE Undefined

\* the object literal a case of the switch passes as the operation's options:
\* { f: ..., ...options } lets the keys of options win
ForwardedOptions(st) ==
  LET tag == TagOf(st)
      options == buildExecutionOptions(st)
  IN CASE tag = "aiAction" ->
            options @@ [cacheable |-> Coalesce(st, "cacheable", B("true"))]
       [] tag = "aiInput" ->
            options @@ [autoDismissKeyboard |-> Coalesce(st, "autoDismissKeyboard", B("true"))]
       [] tag \in {"aiQuery", "aiExtract", "aiAsk", "aiBoolean", "aiNumber", "aiString"} ->
            options @@ [domIncluded |-> Coalesce(st, "domIncluded", B("false")),
                        screenshotIncluded |-> Coalesce(st, "screenshotIncluded", B("true"))]
       [] tag = "aiAssert" ->
            options @@ [timeoutMs |-> OrElse(st, "timeoutMs", N("15000"))]
       [] tag = "aiWaitFor" ->
            options @@ [timeoutMs |-> OrElse(st, "timeoutMs", N("15000")),
                        checkIntervalMs |-> OrElse(st, "checkIntervalMs", N("3000"))]
       [] tag = "logScreenshot" ->
            options @@ [title |-> Field(st, "title"), content |-> Field(st, "content")]
       [] tag = "describeElementAtPoint" ->
            options @@ [verifyPrompt |-> Field(st, "verifyPrompt"),
                        retryLimit |-> Field(st, "retryLimit"),
                        deepThink |-> Field(st, "deepThink")]
       [] tag \in {"runYaml", "evaluateJavaScript", "setAIActionContext"} -> << >>
       [] OTHER -> options

\* executeStep has left the switch for the step it holds
Routed == pc \in {"backend", "teardown", "settled"}

\* C21. Exhaustive routing: once executeStep has left its switch for a step
\* whose action the validator accepts, a backend operation has been invoked
\* for it, and the step has not failed as an unsupported type.
C21_ExhaustiveRouting ==
  (Routed /\ AIActionValid(step)) =>
    /\ called # "none"
    /\ ~("error" \in DOMAIN step /\ step.error = "Unsupported step type")

\* a verifyLocator step that passed validation has left the switch: no backend
\* operation was invoked and the step failed as an unsupported type
C21_ValidTagUnsupported ==
  /\ Routed
  /\ AIActionValid(step)
  /\ TagOf(step) = "verifyLocator"
  /\ called = "none"
  /\ step.status = "failed"
  /\ step.error = "Unsupported step type"

\* the option keys the contract names
ContractOptionKeys ==
  {"cacheable", "deepThink", "autoDismissKeyboard", "domIncluded", "screenshotIncluded",
   "timeoutMs", "checkIntervalMs", "verifyPrompt", "retryLimit"}

\* C22. No defaulting in the dispatcher: while a backend operation is awaited,
\* every contract option key in the bag it was given is a field of the step,
\* with the step's value.
C22_NoDefaulting ==
  pc = "backend" =>
    \A f \in ContractOptionKeys \cap DOMAIN ForwardedOptions(step) :
      f \in DOMAIN step /\ ForwardedOptions(step)[f] = step[f]

\* aiAction is awaited for a step that has no cacheable field, and the bag it
\* was given holds cacheable = true
C22_Defaulted ==
  /\ pc = "backend"
  /\ called = "aiAction"
  /\ "cacheable" \notin DOMAIN step
  /\ "cacheable" \in DOMAIN ForwardedOptions(step)
  /\ ForwardedOptions(step).cacheable = B("true")

\* the latest action was a parse() of a live orchestrator, and it resolved
ParseResolved == ret = Ret("parse", "resolved") /\ ~isDestroyed
ParseRejected == ret = Ret("parse", "rejected")
ParseSettled == ParseResolved \/ ParseRejected

\* the action the step at position n (from 1) is to carry: action n of a
\* pre-supplied sequence, or what the validator returns for action n of a code string
SourceAction(n) ==
  IF testCase.actionSequence.defined
    THEN testCase.actionSequence.actions[n]
    ELSE AIActionParsed(testCase.code.json.actions[n])

\* the fields parse() adds to an action
StepOwnFields == {"id", "description", "status", "rawCode"}

\* the steps are those of the sequence s: one per action, in order, with the action's fields
StepsComeFrom(s) ==
  /\ Len(Steps) = Len(s.actions)
  /\ \A n \in 1..Len(Steps) :
       Restrict(Steps[n], (DOMAIN Steps[n]) \ StepOwnFields) = SourceAction(n)

\* C23. parse() input selection: with neither an action sequence nor a
\* non-empty code string parse() resolves with no steps, no error and status
\* created; with an action sequence (that has its arrays) it resolves with the
\* steps of that sequence; with only a code string it resolves with the steps
\* of the sequence in the string exactly when the string parses and validates.
C23_InputSelection ==
  ParseSettled =>
    LET seq == testCase.actionSequence
        code == testCase.code
    IN /\ (~seq.defined /\ code.kind \in {"undefined", "empty"}) =>
            /\ ParseResolved
            /\ Steps = << >>
            /\ testCase.error = NoError
            /\ testCase.status = "created"
       /\ (seq.defined /\ seq.shaped) => ParseResolved /\ StepsComeFrom(seq)
       /\ (~seq.defined /\ code.kind \in {"garbage", "json"}) =>
            IF code.kind = "json" /\ ActionSequenceValid(code.json)
              THEN ParseResolved /\ StepsComeFrom(code.json)
              ELSE ParseRejected /\ Steps = << >>

\* parse() of a case built with the empty string as code and no sequence
\* resolved with no steps
C23_Witness ==
  /\ ParseResolved
  /\ ~testCase.actionSequence.defined
  /\ testCase.code.kind = "empty"
  /\ Steps = << >>
  /\ testCase.status = "created"
  /\ testCase.error = NoError

\* C24. After a parse() that resolved on a sequence of N actions the case has
\* N steps in the order of the actions; every step is pending and has no
\* startTime, endTime, result or error; the ids are pairwise distinct; step n
\* carries the fields of action n and, where the sequence has an n-th display
\* code, that code as rawCode.
C24_ParsedSteps ==
  (ParseResolved /\ SourceSequence.defined) =>
    /\ StepsComeFrom(SourceSequence)
    /\ \A n \in 1..Len(Steps) :
         /\ Steps[n].status = "pending"
         /\ (DOMAIN Steps[n]) \cap {"startTime", "endTime", "result", "error"} = {}
         /\ n <= Len(SourceSequence.code) =>
              "rawCode" \in DOMAIN Steps[n] /\ Steps[n].rawCode = SourceSequence.code[n]
    /\ \A m, n \in 1..Len(Steps) : m # n => Steps[m].id # Steps[n].id

\* parse() resolved on a sequence of MaxSteps actions with one code each
C24_Witness ==
  /\ ParseResolved
  /\ SourceSequence.defined
  /\ Len(SourceSequence.actions) = MaxSteps
  /\ Len(SourceSequence.code) = MaxSteps
  /\ Len(Steps) = MaxSteps
  /\ \A n \in 1..MaxSteps : Steps[n].status = "pending" /\ Steps[n].rawCode = ToString(n)
  /\ Cardinality({Steps[n].id : n \in 1..MaxSteps}) = MaxSteps

\* the fields execution writes
ExecutionFields == {"status", "startTime", "endTime", "result", "error"}

\* a step without the fields execution writes
Frame(st) == Restrict(st, (DOMAIN st) \ ExecutionFields)

\* C25. Frame of execution: a step of the system that keeps the case's list of
\* steps (every one but a parse() or a reset()) leaves each step's id,
\* description, rawCode, type tag and action fields as they were, in the list
\* and in the step object a dispatch holds.
C25_ExecutionFrame ==
  [][/\ Len(Steps') = Len(Steps) =>
          \A n \in 1..Len(Steps) : Frame(Steps'[n]) = Frame(Steps[n])
     /\ (pc # "idle" /\ pc' # "idle" /\ i' = i) => Frame(step') = Frame(step)]_vars

\* execute() returned on a case of two steps: the first succeeded, the second
\* failed, both have their stamps and the fields parse() gave them
C25_Witness ==
  /\ ExecuteReturned
  /\ Len(Steps) = 2
  /\ StatusAt(0) = "success"
  /\ StatusAt(1) = "failed"
  /\ \A n \in 1..2 :
       /\ {"startTime", "endTime"} \subseteq DOMAIN Steps[n]
       /\ Frame(Steps[n]) = Frame(MakeStep(SourceAction(n), SourceSequence.code, n, Steps[1].id))

(***************************************************************************)
(* SpecResume: an orchestrator made by TestCaseExecutor.fromTestCase from  *)
(* a stored case, a sequence of aiTap actions whose steps carry the status *)
(* an earlier session left them in, and executed without a parse().        *)
(***************************************************************************)
StoredStatuses == {"pending", "success", "failed", "skipped"}

\* a step as an earlier session left it
StoredStep(st, status) ==
  CASE status = "pending" -> st
    [] status = "failed"  -> Fail(Put(st, "startTime", 1), [isError |-> TRUE, message |-> "element not found"], 1)
    [] OTHER              -> Put(Succeed(Put(st, "startTime", 1), Undefined, 1), "status", status)

\* the stored cases: status and steps of an earlier session
StoredCases ==
  {[actionSequence |-> in.actionSequence, code |-> in.code,
    steps |-> [n \in 1..Len(in.actionSequence.actions) |->
                 StoredStep(StepsOf(in.actionSequence, 1)[n], statuses[n])],
    status |-> status, startTime |-> NoTime, endTime |-> NoTime, error |-> NoError] :
     <<in, statuses, status>> \in
       {<<in, statuses, status>> \in
          SnapshotInputs \X (UNION {[1..n -> StoredStatuses] : n \in 0..MaxSteps})
                         \X {"created", "completed", "failed"} :
            in.actionSequence.shaped /\ Len(statuses) = Len(in.actionSequence.actions)}}

\* TestCaseExecutor.fromTestCase(tc)
fromTestCase(tc) ==
  /\ testCase = tc
  /\ isDestroyed = FALSE
  /\ listeners = TRUE
  /\ agent = 0
  /\ isInitialized = FALSE
  /\ pc = "idle"
  /\ i = 0
  /\ step = NoStep
  /\ attached = FALSE
  /\ called = "none"
  /\ pendingDestroy = FALSE
  /\ nextId = Len(tc.steps) + 1
  /\ nextDriver = 1
  /\ torn = {}
  /\ dispatched = {}
  /\ runs = 0
  /\ now = 1
  /\ emitted = << >>
  /\ ret = NoRet
  /\ log = << >>
  /\ statusAtCall = << >>
  /\ skippedShown = {}
  /\ configManager = NewConfigManager
  /\ sessionManager = NewSessionManager

InitResume == \E tc \in StoredCases : fromTestCase(tc)

\* execute() on the case the orchestrator was made from, whatever its status
ExecuteStored == runs = 0 /\ ExecuteWithin(MaxRuns)

NextResume ==
  \/ Next
  \/ ExecuteStored

SpecResume == InitResume /\ [][NextResume]_vars

\* C26. Case aggregation: when execute() returns, the case is completed if
\* and only if every step dispatched during this execute() ended success, and
\* it is failed only on account of a step that was not skipped when execute()
\* was called.
C26_Aggregation ==
  ExecuteReturned =>
    /\ testCase.status = "completed" <=> \A k \in dispatched : StatusAt(k) = "success"
    /\ testCase.status = "failed" =>
         \E k \in Indexes : statusAtCall[k + 1] # "skipped" /\ StatusAt(k) # "success"

\* execute() was called on a case whose only step was skipped: the step was
\* dispatched, its backend call raised, and execute() returned a failed case
C26_SkippedStepFailsCase ==
  /\ ExecuteReturned
  /\ Len(Steps) = 1
  /\ statusAtCall = <<"skipped">>
  /\ dispatched = {0}
  /\ StatusAt(0) = "failed"
  /\ testCase.status = "failed"

\* the step at index k, failed before, is started again by this step of the system
Restarted(k) ==
  /\ Len(Steps') = Len(Steps)
  /\ StatusAt(k) = "failed"
  /\ Steps'[k + 1].status = "running"

\* C27. In-place rerun: whenever a failed step is started again it is that
\* step alone that runs: it keeps its id and action fields, its earlier
\* endTime, result and error are gone, and no other step has been dispatched
\* by the execute() that started it.
C27_InPlaceRerun ==
  [][\A k \in Indexes :
       Restarted(k) =>
         /\ Frame(Steps'[k + 1]) = Frame(Steps[k + 1])
         /\ (DOMAIN Steps'[k + 1]) \cap {"endTime", "result", "error"} = {}
         /\ dispatched' = {k}]_vars

\* a second execute() on a failed case has started the failed second step
\* again: the first step was dispatched again before it, and the step still
\* carries the error and endTime of its first run
C27_RerunRepeatsCase ==
  /\ runs = 2
  /\ pc # "idle"
  /\ i = 1
  /\ attached
  /\ dispatched = {0, 1}
  /\ statusAtCall[2] = "failed"
  /\ step.status = "running"
  /\ {"error", "endTime"} \subseteq DOMAIN step

(***************************************************************************)
(* SpecDisplay: the orchestrator behind the chat panel, whose user skips   *)
(* steps by hand while the handlers of useChat are attached.               *)
(***************************************************************************)
\* the message shows the steps of the case: a caseStatusChanged event of an
\* execute() has been delivered
StepsShown ==
  /\ listeners
  /\ \E n \in 1..Len(log) : log[n].name = "caseStatusChanged" /\ log[n].status = "running"

\* the status the message shows for the step at index k
ShownStatus(k) == IF Steps[k + 1].id \in skippedShown THEN "skipped" ELSE StatusAt(k)

\* the message has been rendered since the step at index k completed
RenderedCompleted(k) ==
  \E n \in 1..Len(log) : log[n].name = "stepCompleted" /\ log[n].stepId = Steps[k + 1].id

\* TestStepItem offers the skip on a step shown as success; handleSkipStep
\* calls updateStep({ ...step, status: 'skipped' })
handleSkipStep ==
  /\ StepsShown
  /\ \E k \in Indexes :
       /\ ShownStatus(k) = "success"
       /\ RenderedCompleted(k)
       /\ skippedShown' = skippedShown \cup {Steps[k + 1].id}
  /\ emitted' = << >>
  /\ ret' = Ret("handleSkipStep", "returned")
  /\ UNCHANGED <<testCase, isDestroyed, listeners, agent, isInitialized, pc, i, step,
                 attached, called, pendingDestroy, nextId, nextDriver, torn, dispatched,
                 runs, now, log, statusAtCall, configManager, sessionManager>>

NextDisplay ==
  \/ Next
  \/ handleSkipStep

SpecDisplay == InitSnapshot /\ [][NextDisplay]_vars

\* C28. Manual skip: a step becomes shown as skipped only from being shown as
\* success, and while an execute() is in flight no step of the system, the
\* one that settles the execute() included, takes a step shown as skipped
\* back to another status.
C28_SkipAbsorbing ==
  [][/\ \A k \in Indexes :
          (Steps[k + 1].id \in skippedShown' \ skippedShown) => ShownStatus(k) = "success"
     /\ pc # "idle" => skippedShown \subseteq skippedShown']_vars

\* the first step of a case still executing is shown as skipped while the
\* orchestrator holds it as success and the second step is running
C28_SkippedWhileExecuting ==
  /\ pc # "idle"
  /\ listeners
  /\ Len(Steps) >= 2
  /\ Steps[1].id \in skippedShown
  /\ StatusAt(0) = "success"
  /\ StatusAt(1) = "running"

\* the positions of the step events in the log
StepEventPositions == {q \in 1..Len(log) : log[q].name \in {"stepStarted", "stepCompleted"}}

\* the case-status notifications that follow the last step event of the log
FinalNotifications ==
  {q \in 1..Len(log) :
     /\ log[q].name = "caseStatusChanged"
     /\ log[q] # RunStarted
     /\ \A p \in StepEventPositions : p < q}

EmittedNames == {"caseStatusChanged", "stepStarted", "stepCompleted", "caseParsed"}

\* C30. Every execute() that has settled has emitted a caseExecutionFinished
\* event carrying the case in its final status.
C30_FinishedEmitted ==
  ExecuteSettled =>
    \E q \in 1..Len(log) : log[q] = Event("caseExecutionFinished", testCase.status, 0)

\* execute() returned a completed case of MaxSteps steps, and every event of
\* the log bears one of the four other names
C30_NeverEmitted ==
  /\ ExecuteReturned
  /\ testCase.status = "completed"
  /\ Len(Steps) = MaxSteps
  /\ Len(log) = 2 * MaxSteps + 3
  /\ \A q \in 1..Len(log) : log[q].name \in EmittedNames

\* C31. After destroy() has resolved the orchestrator holds no live backend
\* driver, whether destroy() was called during an execute() or before it.
C31_NoDriverAfterDestroy == DestroyResolved => ~isReady

\* destroy() resolved on an orchestrator that had made no driver; the first
\* step of execute() then runs on a driver of its own
C31_DriverMadeAfterDestroy ==
  /\ DestroyResolved
  /\ ~listeners
  /\ torn = {}
  /\ pc = "backend"
  /\ i = 0
  /\ agent = 1
  /\ isReady

\* C32. A step is reported success only if the backend operation of its tag
\* was invoked for it (and returned): once executeStep has written success to
\* the step it holds, an operation has been called, that of the step's tag.
C32_SuccessMeansInvoked ==
  (Routed /\ step.status = "success") => called = BackendOp(TagOf(step))

\* an aiAssert step that passed validation with the empty string as assertion
\* settled as success, and no backend operation was invoked
C32_SuccessWithoutCall ==
  /\ pc = "settled"
  /\ AIActionValid(step)
  /\ TagOf(step) = "aiAssert"
  /\ step.assertion = S("")
  /\ step.status = "success"
  /\ called = "none"

\* C33. Step field consistency: a step in status success has no error, a step
\* in status failed has no result, and a step in status pending has no
\* endTime, result or error.
C33_FieldConsistency ==
  \A k \in Indexes :
    /\ StatusAt(k) = "success" => "error" \notin DOMAIN Steps[k + 1]
    /\ StatusAt(k) = "failed" => "result" \notin DOMAIN Steps[k + 1]
    /\ StatusAt(k) = "pending" =>
         (DOMAIN Steps[k + 1]) \cap {"endTime", "result", "error"} = {}

\* the second execute() of a case returned: its step, failed in the first
\* run, is success and still carries the error of the first run
C33_SuccessWithError ==
  /\ ExecuteReturned
  /\ runs = 2
  /\ Len(Steps) = 1
  /\ statusAtCall = <<"failed">>
  /\ StatusAt(0) = "success"
  /\ "error" \in DOMAIN Steps[1]
  /\ "result" \in DOMAIN Steps[1]

\* C34. Whenever the case status is not running, no step of the case has
\* status running.
C34_NoRunningStepOutsideRun ==
  testCase.status # "running" => \A k \in Indexes : StatusAt(k) # "running"

\* stop() returned during the first step: the case is stopped and the step is
\* still running
C34_StoppedWithRunningStep ==
  /\ ret = Ret("stop", "returned")
  /\ testCase.status = "stopped"
  /\ pc = "backend"
  /\ StatusAt(0) = "running"

\* C35. execute() on a case without steps returns at once with the case
\* completed: nothing is dispatched, no driver is made, and the events are
\* caseStatusChanged(running) and caseStatusChanged(completed) alone.
C35_EmptyExecute ==
  [][(runs' = runs + 1 /\ Steps = << >>) =>
       /\ ret' = Ret("execute", "resolved")
       /\ pc' = "idle"
       /\ testCase'.status = "completed"
       /\ testCase'.steps = << >>
       /\ dispatched' = {}
       /\ nextDriver' = nextDriver
       /\ agent' = agent
       /\ emitted' = <<RunStarted, Event("caseStatusChanged", "completed", 0)>>]_vars

\* execute() returned on a case that parse() left without steps, after a
\* destroy(): the case is completed and no driver was ever made
C35_Witness ==
  /\ ExecuteReturned
  /\ isDestroyed
  /\ Steps = << >>
  /\ testCase.status = "completed"
  /\ dispatched = {}
  /\ nextDriver = 1
  /\ log = <<RunStarted, Event("caseStatusChanged", "completed", 0)>>

(***************************************************************************)
(* Before useChat.sendMessage has constructed an orchestrator.             *)
(***************************************************************************)
NoExecutor ==
  /\ testCase = [actionSequence |-> NoSequence, code |-> NoCode, steps |-> << >>,
                 status |-> "created", startTime |-> NoTime, endTime |-> NoTime,
                 error |-> NoError]
  /\ isDestroyed = FALSE
  /\ listeners = FALSE
  /\ agent = 0
  /\ isInitialized = FALSE
  /\ pc = "idle"
  /\ i = 0
  /\ step = NoStep
  /\ attached = FALSE
  /\ called = "none"
  /\ pendingDestroy = FALSE
  /\ nextId = 1
  /\ nextDriver = 1
  /\ torn = {}
  /\ dispatched = {}
  /\ runs = 0
  /\ now = 1
  /\ emitted = << >>
  /\ ret = NoRet
  /\ log = << >>
  /\ statusAtCall = << >>
  /\ skippedShown = {}

(***************************************************************************)
(* AIConfigManager.  A configuration is [modelType, isEnabled]; its other  *)
(* fields take no part in what the manager decides.  configs and storage   *)
(* are functions from ids to configurations.  addConfig and updateConfig   *)
(* are suspended at `await this.ensureSingleEnabledPerType(...)` and go on *)
(* in a later turn.                                                        *)
(***************************************************************************)
MaxConfigs == 2     \* ids nanoid() hands to addConfig: 1..MaxConfigs
MaxImported == 1    \* ids found in imported files: MaxConfigs+1..MaxConfigs+MaxImported

ModelTypes == {"vision", "language"}
ConfigValues == [modelType : ModelTypes, isEnabled : BOOLEAN]
ImportIds == (MaxConfigs + 1)..(MaxConfigs + MaxImported)

\* the updates updateConfig is called with: any part of a configuration
ConfigUpdates ==
  {<< >>} \cup {[isEnabled |-> b] : b \in BOOLEAN}
          \cup {[modelType |-> t] : t \in ModelTypes}
          \cup ConfigValues

\* the files importConfigs is called with
ImportFiles == UNION {[ids -> ConfigValues] : ids \in (SUBSET ImportIds) \ {{}}}

Configs == configManager.configs
Called(op, id, result) == [op |-> op, id |-> id, result |-> result]

\* { ...existingConfig, ...updates }
Merge(config, updates) ==
  [f \in DOMAIN config |-> IF f \in DOMAIN updates THEN updates[f] ELSE config[f]]

\* ensureSingleEnabledPerType(modelType, excludeId)
ensureSingleEnabledPerType(configs, modelType, excludeId) ==
  [id \in DOMAIN configs |->
     IF configs[id].modelType = modelType /\ id # excludeId
       THEN [configs[id] EXCEPT !.isEnabled = FALSE]
       ELSE configs[id]]

\* this.configs.set(id, config)
SetConfig(configs, id, config) ==
  [n \in (DOMAIN configs) \cup {id} |-> IF n = id THEN config ELSE configs[n]]

\* this.configs.set(id, config); await this.saveToStorage(); return config
SetAndSave(m, id, config, op) ==
  LET configs == SetConfig(m.configs, id, config)
  IN [m EXCEPT !.configs = configs, !.storage = configs, !.ret = Called(op, id, TRUE)]

\* addConfig(config), down to its return or to the await of line 92
addConfig ==
  /\ configManager.nextId <= MaxConfigs
  /\ \E config \in ConfigValues :
       LET id == configManager.nextId
           m == [configManager EXCEPT !.nextId = id + 1]
       IN configManager' =
            IF config.isEnabled
              THEN [m EXCEPT !.configs = ensureSingleEnabledPerType(m.configs, config.modelType, id),
                             !.suspended = @ \cup {[op |-> "addConfig", id |-> id, config |-> config]}]
              ELSE SetAndSave(m, id, config, "addConfig")
  /\ UNCHANGED <<executorVars, sessionManager>>

\* updatedConfig.isEnabled && !existingConfig.isEnabled
NeedsEnsure(existing, updated) == updated.isEnabled /\ ~existing.isEnabled

\* updateConfig(id, updates), down to its return or to the await of line 133
updateConfig ==
  /\ \E id \in 1..(MaxConfigs + MaxImported), updates \in ConfigUpdates :
       IF id \notin DOMAIN Configs
         THEN configManager' = [configManager EXCEPT !.ret = Called("updateConfig", id, FALSE)]
         ELSE LET updated == Merge(Configs[id], updates)
              IN configManager' =
                   IF NeedsEnsure(Configs[id], updated)
                     THEN [configManager EXCEPT
                             !.configs = ensureSingleEnabledPerType(@, updated.modelType, id),
                             !.suspended = @ \cup {[op |-> "updateConfig", id |-> id,
                                                    config |-> updated]}]
                     ELSE SetAndSave(configManager, id, updated, "updateConfig")
  /\ UNCHANGED <<executorVars, sessionManager>>

\* a call suspended at its await goes on: set, save, return
ResumeConfig ==
  /\ \E c \in configManager.suspended :
       configManager' =
         SetAndSave([configManager EXCEPT !.suspended = @ \ {c}], c.id, c.config, c.op)
  /\ UNCHANGED <<executorVars, sessionManager>>

\* deleteConfig(id)
deleteConfig ==
  /\ \E id \in 1..(MaxConfigs + MaxImported) :
       IF id \notin DOMAIN Configs
         THEN configManager' = [configManager EXCEPT !.ret = Called("deleteConfig", id, FALSE)]
         ELSE LET configs == Restrict(Configs, (DOMAIN Configs) \ {id})
              IN configManager' = [configManager EXCEPT !.configs = configs, !.storage = configs,
                                                        !.ret = Called("deleteConfig", id, TRUE)]
  /\ UNCHANGED <<executorVars, sessionManager>>

\* importConfigs(jsonData) from its first await on: the configs of the file
\* whose id the manager does not have are set as they are, then all is saved
importConfigs ==
  /\ \E file \in ImportFiles :
       LET configs == [id \in (DOMAIN Configs) \cup DOMAIN file |->
                         IF id \in DOMAIN Configs THEN Configs[id] ELSE file[id]]
       IN configManager' = [configManager EXCEPT !.configs = configs, !.storage = configs,
                                                 !.ret = Called("importConfigs", 0, TRUE)]
  /\ UNCHANGED <<executorVars, sessionManager>>

NextConfig ==
  \/ addConfig
  \/ updateConfig
  \/ ResumeConfig
  \/ deleteConfig
  \/ importConfigs

InitConfig ==
  /\ NoExecutor
  /\ configManager = NewConfigManager
  /\ sessionManager = NewSessionManager

SpecConfig == InitConfig /\ [][NextConfig]_vars

\* the enabled configurations of a model type
EnabledOf(configs, t) == {id \in DOMAIN configs : configs[id].modelType = t /\ configs[id].isEnabled}

\* C36. At most one enabled configuration per model type: no two
\* configurations the manager holds have the same modelType and are both enabled.
C36_SingleEnabledPerType ==
  \A t \in ModelTypes : Cardinality(EnabledOf(Configs, t)) <= 1

\* updateConfig returned after changing the modelType of an enabled
\* configuration: the manager holds two enabled vision configurations
C36_TwoEnabled ==
  /\ configManager.ret = Called("updateConfig", 2, TRUE)
  /\ configManager.suspended = {}
  /\ DOMAIN Configs = {1, 2}
  /\ EnabledOf(Configs, "vision") = {1, 2}
  /\ configManager.storage = Configs

\* C37. deleteConfig(id) returns true only when the configuration existed, was
\* not the only one, and was removed; when it is the only configuration it
\* returns false and leaves the configurations and the storage as they were.
C37_KeepsLastConfig ==
  [][(configManager' # configManager /\ configManager'.ret.op = "deleteConfig") =>
       LET id == configManager'.ret.id
       IN IF id \in DOMAIN Configs /\ Cardinality(DOMAIN Configs) > 1
            THEN /\ configManager'.ret.result
                 /\ DOMAIN configManager'.configs = (DOMAIN Configs) \ {id}
            ELSE /\ ~configManager'.ret.result
                 /\ configManager'.configs = Configs
                 /\ configManager'.storage = configManager.storage]_vars

\* deleteConfig returned true on the only configuration: the manager and the
\* storage hold no configuration
C37_LastConfigDeleted ==
  /\ configManager.ret = Called("deleteConfig", 1, TRUE)
  /\ configManager.nextId = 2
  /\ configManager.suspended = {}
  /\ Configs = << >>
  /\ configManager.storage = << >>

(***************************************************************************)
(* SessionManager.  sessions is the key order of the Map; objects holds    *)
(* the session object of every id, a session being [updatedAt, messages]   *)
(* with messages the number of times its messages were replaced; storage   *)
(* is the IndexedDB object store.  sessionIds and batch are the locals of  *)
(* the processSaveQueue call that is running, removing the loops of        *)
(* cleanupOldSessions and the deleteSession calls that await the storage.  *)
(***************************************************************************)
MaxSessionIds == 3   \* ids of sessions: 1..MaxSessionIds
maxSessions == 2     \* options.maxSessions the manager is constructed with
MaxChanges == 3      \* calls of updateSessionMessages, setCurrentSession, deleteSession, clearAllSessions

Star == 0 - 1        \* the queue entry '*'
SessionIds == 1..MaxSessionIds
sm == sessionManager

\* what the object store holds when the page is opened
StoredSessions == {<< >>, <<[updatedAt |-> 1, messages |-> 0]>>}

Elems(q) == {q[n] : n \in DOMAIN q}
Without(q, x) == SelectSeq(q, LAMBDA y : y # x)
\* Set.add / Map.set of a key: a key already present keeps its place
AddKey(q, x) == IF x \in Elems(q) THEN q ELSE Append(q, x)

\* Date.now() at a later call: the same millisecond or a later one
Ticks == {c \in {sm.clock, sm.clock + 1} : c <= MaxClock}

\* sort((a, b) => b.updatedAt - a.updatedAt) of the sessions of the Map:
\* descending, sessions of one millisecond in the order of the Map
RECURSIVE byUpdatedAt(_, _)
byUpdatedAt(q, objects) ==
  IF q = << >> THEN << >>
  ELSE LET first == CHOOSE n \in DOMAIN q :
                      \A k \in DOMAIN q :
                        \/ objects[q[n]].updatedAt > objects[q[k]].updatedAt
                        \/ objects[q[n]].updatedAt = objects[q[k]].updatedAt /\ n <= k
       IN <<q[first]>> \o byUpdatedAt(Without(q, q[first]), objects)

\* processSaveQueue() down to its first await, or to its end when there is none
processSaveQueue(m) ==
  IF m.isSaving \/ m.saveQueue = << >> THEN m
  ELSE LET ids == m.saveQueue
           sessionsToSave == IF Star \in Elems(ids) THEN m.sessions
                             ELSE SelectSeq(ids, LAMBDA id : id \in Elems(m.sessions))
       IN [m EXCEPT !.saveQueue = << >>,
                    !.sessionIds = IF Star \in Elems(ids) \/ sessionsToSave # << >> THEN ids ELSE << >>,
                    !.batch = sessionsToSave,
                    !.isSaving = Star \in Elems(ids) \/ sessionsToSave # << >>]

\* scheduleSave(sessionId)
scheduleSave(m, sessionId) ==
  processSaveQueue([m EXCEPT !.saveQueue = AddKey(@, sessionId)])

\* cleanupOldSessions() down to its first await
cleanupOldSessions(m) ==
  LET sorted == byUpdatedAt(m.sessions, m.objects)
      sessionsToRemove == SubSeq(sorted, maxSessions + 1, Len(sorted))
  IN IF sessionsToRemove = << >> THEN m
     ELSE LET id == Head(sessionsToRemove)
          IN [m EXCEPT !.sessions = Without(@, id),
                       !.currentSessionId = IF @ = id THEN 0 ELSE @,
                       !.removing = @ \cup {sessionsToRemove}]

\* createSession(initialMessages)
createSession ==
  /\ sm.nextId <= MaxSessionIds
  /\ \E t \in Ticks :
       LET id == sm.nextId
           made == [sm EXCEPT !.nextId = id + 1, !.clock = t,
                              !.objects = Put(@, id, [updatedAt |-> t, messages |-> 0]),
                              !.sessions = Append(@, id),
                              !.currentSessionId = id]
           kept == IF Len(made.sessions) > maxSessions THEN cleanupOldSessions(made) ELSE made
       IN sessionManager' = scheduleSave(kept, id)
  /\ UNCHANGED <<executorVars, configManager>>

\* setCurrentSession(sessionId)
setCurrentSession ==
  /\ sm.changes < MaxChanges
  /\ \E sessionId \in SessionIds :
       sessionManager' =
         [sm EXCEPT !.changes = @ + 1,
                    !.currentSessionId = IF sessionId \in Elems(sm.sessions) THEN sessionId ELSE @]
  /\ UNCHANGED <<executorVars, configManager>>

\* updateSessionMessages(sessionId, messages)
updateSessionMessages ==
  /\ sm.changes < MaxChanges
  /\ \E sessionId \in SessionIds, t \in Ticks :
       sessionManager' =
         IF sessionId \notin Elems(sm.sessions) THEN [sm EXCEPT !.changes = @ + 1]
         ELSE scheduleSave(
                [sm EXCEPT !.changes = @ + 1, !.clock = t,
                           !.objects[sessionId] =
                              [updatedAt |-> t, messages |-> sm.objects[sessionId].messages + 1]],
                sessionId)
  /\ UNCHANGED <<executorVars, configManager>>

\* deleteSession(sessionId) down to its await
deleteSession ==
  /\ sm.changes < MaxChanges
  /\ \E sessionId \in SessionIds :
       LET remaining == byUpdatedAt(Without(sm.sessions, sessionId), sm.objects)
       IN sessionManager' =
            [sm EXCEPT !.changes = @ + 1,
                       !.sessions = Without(@, sessionId),
                       !.currentSessionId =
                          IF @ = sessionId
                            THEN IF remaining # << >> THEN Head(remaining) ELSE 0
                            ELSE @,
                       !.removing = @ \cup {<<sessionId>>}]
  /\ UNCHANGED <<executorVars, configManager>>

\* clearAllSessions()
clearAllSessions ==
  /\ sm.changes < MaxChanges
  /\ sessionManager' =
       scheduleSave([sm EXCEPT !.changes = @ + 1, !.sessions = << >>,
                               !.currentSessionId = 0, !.saveQueue = << >>], Star)
  /\ UNCHANGED <<executorVars, configManager>>

\* loadSessions() after its awaits: every stored session is set in the Map
LoadDone ==
  /\ sm.loaded = "pending"
  /\ LET stored == DOMAIN sm.storage
         RECURSIVE SetAll(_, _)
         SetAll(q, ids) ==
           IF ids = {} THEN q
           ELSE LET id == CHOOSE n \in ids : \A k \in ids : n <= k
                IN SetAll(AddKey(q, id), ids \ {id})
     IN sessionManager' =
          [sm EXCEPT !.loaded = "done",
                     !.sessions = SetAll(@, stored),
                     !.objects = [id \in (DOMAIN @) \cup stored |->
                                    IF id \in stored THEN sm.storage[id] ELSE @[id]]]
  /\ UNCHANGED <<executorVars, configManager>>

\* loadSessions() when the storage rejects: the catch clears the Map
LoadFail ==
  /\ sm.loaded = "pending"
  /\ sessionManager' = [sm EXCEPT !.loaded = "failed", !.sessions = << >>]
  /\ UNCHANGED <<executorVars, configManager>>

\* the write awaited by processSaveQueue is done: saveSessions(allSessions)
\* replaces the store, saveSession(session) puts one session and the loop
\* awaits the next; after the last write, finally { this.isSaving = false }
SaveStep ==
  /\ sm.isSaving
  /\ LET all == Star \in Elems(sm.sessionIds)
         rest == IF all THEN << >> ELSE Tail(sm.batch)
     IN sessionManager' =
          [sm EXCEPT !.storage = IF all THEN [id \in Elems(sm.batch) |-> sm.objects[id]]
                                 ELSE Put(@, Head(sm.batch), sm.objects[Head(sm.batch)]),
                     !.batch = rest,
                     !.isSaving = rest # << >>,
                     !.sessionIds = IF rest = << >> THEN << >> ELSE @]
  /\ UNCHANGED <<executorVars, configManager>>

\* the write awaited by processSaveQueue rejects: the ids go back to the queue
SaveFail ==
  /\ sm.isSaving
  /\ LET RECURSIVE AddAll(_, _)
         AddAll(q, ids) == IF ids = << >> THEN q ELSE AddAll(AddKey(q, Head(ids)), Tail(ids))
     IN sessionManager' = [sm EXCEPT !.saveQueue = AddAll(@, sm.sessionIds),
                                     !.isSaving = FALSE, !.sessionIds = << >>, !.batch = << >>]
  /\ UNCHANGED <<executorVars, configManager>>

\* storage.deleteSession awaited by cleanupOldSessions or deleteSession is
\* done; the loop of cleanupOldSessions goes on with its next session
RemoveStep ==
  /\ \E r \in sm.removing :
       LET rest == Tail(r)
           m == [sm EXCEPT !.storage = Restrict(@, (DOMAIN @) \ {Head(r)}),
                           !.removing = @ \ {r}]
       IN sessionManager' =
            IF rest = << >> THEN m
            ELSE [m EXCEPT !.sessions = Without(@, Head(rest)),
                           !.currentSessionId = IF @ = Head(rest) THEN 0 ELSE @,
                           !.removing = @ \cup {rest}]
  /\ UNCHANGED <<executorVars, configManager>>

\* the calls made on the manager
SessionCalls ==
  \/ createSession
  \/ setCurrentSession
  \/ updateSessionMessages
  \/ deleteSession
  \/ clearAllSessions

\* the continuations behind its awaits when the storage works
SessionSteps ==
  \/ LoadDone
  \/ SaveStep
  \/ RemoveStep

NextSessions ==
  \/ SessionCalls
  \/ SessionSteps
  \/ LoadFail
  \/ SaveFail

InitSessions ==
  /\ NoExecutor
  /\ configManager = NewConfigManager
  /\ \E stored \in StoredSessions :
       sessionManager = [NewSessionManager EXCEPT !.storage = stored, !.nextId = Len(stored) + 1]

SpecSessions == InitSessions /\ [][NextSessions]_vars

\* the storage works, and every continuation that can run does run
NextSessionsFair ==
  \/ SessionCalls
  \/ SessionSteps

SpecSessionsFair ==
  /\ InitSessions
  /\ [][NextSessionsFair]_vars
  /\ WF_vars(LoadDone)
  /\ WF_vars(SaveStep)
  /\ WF_vars(RemoveStep)

\* C38. Every change scheduled with scheduleSave is written once the save in
\* flight finishes: when writes succeed, a queue that holds an id leads to an
\* empty queue with no save running, without any further call being needed.
C38_QueueDrains ==
  (sm.saveQueue # << >>) ~> (sm.saveQueue = << >> /\ ~sm.isSaving)

\* a session updated while a save was in flight: the save has finished, no
\* continuation is left, the id waits in the queue and the store holds the
\* messages of before the update
C38_LeftInQueue ==
  /\ ~sm.isSaving
  /\ sm.loaded = "done"
  /\ sm.removing = {}
  /\ \E id \in Elems(sm.saveQueue) :
       /\ id \in Elems(sm.sessions)
       /\ id \in DOMAIN sm.storage
       /\ sm.storage[id].messages < sm.objects[id].messages

\* C39. currentSessionId is null or the id of a session of the Map.
C39_CurrentSessionPresent ==
  sm.currentSessionId = 0 \/ sm.currentSessionId \in Elems(sm.sessions)

\* createSession was called before the load failed: the Map was cleared and
\* currentSessionId still names the session created
C39_CurrentAfterFailedLoad ==
  /\ sm.loaded = "failed"
  /\ sm.sessions = << >>
  /\ sm.currentSessionId = 1
  /\ sm.nextId = 2

====
